---- MODULE Spec2Model ----
(***************************************************************************)
(* A model of pyquil/paulis.py: the Pauli algebra (PauliTerm, PauliSum),   *)
(* the simplifier, the equality and hashing of terms and sums, the parity  *)
(* test for commutation, the commuting sets, the exponential of a term and *)
(* the Trotter schedules and products.                                     *)
(*                                                                         *)
(* A coefficient is a Gaussian integer <<re, im>> (Python complex with     *)
(* integral parts).  A PauliTerm is a record [ops, coef] whose ops is the  *)
(* OrderedDict _ops as the sequence of its items <<qubit, operator>>, in   *)
(* insertion order.  A PauliSum is its list of terms.                      *)
(***************************************************************************)
EXTENDS Integers, Sequences, FiniteSets, TLC

VARIABLES
    pc,     \* the operation that was applied last ("init" before any)
    ta,     \* first PauliTerm operand of the last operation
    tb,     \* second PauliTerm operand
    tc,     \* third PauliTerm operand
    sa,     \* first PauliSum operand
    sb,     \* second PauliSum operand
    pw,     \* integer operand (a power)
    rt1,    \* PauliTerm results of the last operation
    rt2,
    rs1,    \* PauliSum results of the last operation
    rs2,
    rb1,    \* boolean results of the last operation
    rb2,
    nops,   \* number of operations applied in the session
    rl,     \* list result of the last operation: groups, schedule or Program
    exc,    \* the exception the last operation raised, "none" if it returned
    trotter_order,  \* the arguments of suzuki_trotter and trotterize
    trotter_steps,
    heap,   \* the objects after the last call
    before  \* the objects before the last call

vars == <<pc, ta, tb, tc, sa, sb, pw, rt1, rt2, rs1, rs2, rb1, rb2, nops, rl, exc,
          trotter_order, trotter_steps, heap, before>>

-----------------------------------------------------------------------------
(* Bounds of the model *)

MaxQubit == 1
MaxPower == 3
MaxLen == 3
MaxOps == 2
MaxCoef == 8
MaxSteps == 3

Qubits == 0..MaxQubit

-----------------------------------------------------------------------------
(* Complex arithmetic on Gaussian integers *)

CZero == <<0, 0>>
COne == <<1, 0>>
CI == <<0, 1>>
CNegI == <<0, -1>>
CNegOne == <<-1, 0>>

CMul(a, b) == <<a[1] * b[1] - a[2] * b[2], a[1] * b[2] + a[2] * b[1]>>
CAdd(a, b) == <<a[1] + b[1], a[2] + b[2]>>
CSub(a, b) == <<a[1] - b[1], a[2] - b[2]>>
NormSq(a) == a[1] * a[1] + a[2] * a[2]

\* np.isclose(a, b): abs(a - b) <= atol + rtol * abs(b), atol = 1e-8 and
\* rtol = 1e-5.  Between two different Gaussian integers abs(a - b) >= 1, and
\* the tolerance is below 1 for every b with abs(b) < 10^5 (all of the
\* coefficients here), so that the test comes to abs(a - b) = 0.
IsClose(a, b) == NormSq(CSub(a, b)) = 0

-----------------------------------------------------------------------------
(* PAULI_OPS, PAULI_PROD, PAULI_COEFF *)

PAULI_OPS == {"X", "Y", "Z", "I"}

PAULI_PROD(l, r) ==
    CASE <<l, r>> = <<"Z", "Z">> -> "I"
      [] <<l, r>> = <<"Y", "Y">> -> "I"
      [] <<l, r>> = <<"X", "X">> -> "I"
      [] <<l, r>> = <<"I", "I">> -> "I"
      [] <<l, r>> = <<"X", "Y">> -> "Z"
      [] <<l, r>> = <<"X", "Z">> -> "Y"
      [] <<l, r>> = <<"Y", "X">> -> "Z"
      [] <<l, r>> = <<"Y", "Z">> -> "X"
      [] <<l, r>> = <<"Z", "X">> -> "Y"
      [] <<l, r>> = <<"Z", "Y">> -> "X"
      [] <<l, r>> = <<"I", "X">> -> "X"
      [] <<l, r>> = <<"I", "Y">> -> "Y"
      [] <<l, r>> = <<"I", "Z">> -> "Z"
      [] <<l, r>> = <<"Z", "I">> -> "Z"
      [] <<l, r>> = <<"Y", "I">> -> "Y"
      [] <<l, r>> = <<"X", "I">> -> "X"

\* PAULI_COEFF with the sign of XZ, YX and ZY lost
PAULI_COEFF_AllPlus(l, r) ==
    CASE <<l, r>> \in {<<"X", "Y">>, <<"Y", "Z">>, <<"Z", "X">>,
                       <<"X", "Z">>, <<"Y", "X">>, <<"Z", "Y">>} -> CI
      [] OTHER -> COne

PAULI_COEFF(l, r) ==
    CASE <<l, r>> = <<"Z", "Z">> -> COne
      [] <<l, r>> = <<"Y", "Y">> -> COne
      [] <<l, r>> = <<"X", "X">> -> COne
      [] <<l, r>> = <<"I", "I">> -> COne
      [] <<l, r>> = <<"X", "Y">> -> CI
      [] <<l, r>> = <<"X", "Z">> -> CNegI
      [] <<l, r>> = <<"Y", "X">> -> CNegI
      [] <<l, r>> = <<"Y", "Z">> -> CI
      [] <<l, r>> = <<"Z", "X">> -> CI
      [] <<l, r>> = <<"Z", "Y">> -> CNegI
      [] <<l, r>> = <<"I", "X">> -> COne
      [] <<l, r>> = <<"I", "Y">> -> COne
      [] <<l, r>> = <<"I", "Z">> -> COne
      [] <<l, r>> = <<"Z", "I">> -> COne
      [] <<l, r>> = <<"Y", "I">> -> COne
      [] <<l, r>> = <<"X", "I">> -> COne

HASH_PRECISION == 1000000

-----------------------------------------------------------------------------
(* The OrderedDict _ops *)

\* list(_ops.keys())
Keys(ops) == {ops[i][1] : i \in DOMAIN ops}

\* _ops.get(i, "I")
GetItem(ops, q) ==
    IF q \in Keys(ops)
    THEN ops[CHOOSE i \in DOMAIN ops : ops[i][1] = q][2]
    ELSE "I"

\* _ops[q] = op: an existing key keeps its position, a new key goes last
SetItem(ops, q, op) ==
    IF q \in Keys(ops)
    THEN [i \in DOMAIN ops |-> IF ops[i][1] = q THEN <<q, op>> ELSE ops[i]]
    ELSE Append(ops, <<q, op>>)

\* del _ops[q] (the key is present wherever the code deletes it: the product
\* of the operators on q is I only when both terms act on q)
DelItem(ops, q) == SelectSeq(ops, LAMBDA e : e[1] # q)

-----------------------------------------------------------------------------
(* PauliTerm *)

\* PauliTerm(op, index, coefficient), for a valid op and index
PauliTerm(op, index, coefficient) ==
    [ops |-> IF op # "I" THEN <<<<index, op>>>> ELSE <<>>, coef |-> coefficient]

ID == PauliTerm("I", 0, COne)
ZERO == PauliTerm("I", 0, CZero)
sI == PauliTerm("I", 0, COne)

operations_as_set(t) == {t.ops[i] : i \in DOMAIN t.ops}

get_qubits(t) == [i \in DOMAIN t.ops |-> t.ops[i][1]]

term_with_coeff(term, coeff) == [ops |-> term.ops, coef |-> coeff]

TermEq(a, b) ==
    /\ operations_as_set(a) = operations_as_set(b)
    /\ IsClose(a.coef, b.coef)

TermHash(t) ==
    <<t.coef[1] * HASH_PRECISION, t.coef[2] * HASH_PRECISION, operations_as_set(t)>>

\* _multiply_factor that stores the product on the qubit even when it is I
multiply_factor_KeepIdentity(term, factor, index) ==
    LET l == GetItem(term.ops, index)
    IN  [ops |-> SetItem(term.ops, index, PAULI_PROD(l, factor)),
         coef |-> CMul(term.coef, PAULI_COEFF(l, factor))]

multiply_factor(term, factor, index) ==
    LET l == GetItem(term.ops, index)
        new_op == PAULI_PROD(l, factor)
        new_ops == IF new_op # "I"
                   THEN SetItem(term.ops, index, new_op)
                   ELSE DelItem(term.ops, index)
    IN  [ops |-> new_ops, coef |-> CMul(term.coef, PAULI_COEFF(l, factor))]

RECURSIVE MulFactors(_, _, _)
\* for index, op in term: new_term = new_term._multiply_factor(op, index)
MulFactors(new_term, factors, i) ==
    IF i > Len(factors)
    THEN new_term
    ELSE MulFactors(multiply_factor(new_term, factors[i][2], factors[i][1]),
                    factors, i + 1)

\* PauliTerm.__mul__ with a number
TermMulNumber(t, x) == term_with_coeff(t, CMul(t.coef, x))

\* __mul__ without the phases that _multiply_factor accumulated
TermMulNoPhase(a, b) ==
    LET new_term == MulFactors([ops |-> a.ops, coef |-> COne], b.ops, 1)
    IN  term_with_coeff(new_term, CMul(a.coef, b.coef))

\* PauliTerm.__mul__ with a PauliTerm
TermMul(a, b) ==
    LET new_coeff == CMul(a.coef, b.coef)
        new_term == MulFactors([ops |-> a.ops, coef |-> COne], b.ops, 1)
    IN  term_with_coeff(new_term, CMul(new_term.coef, new_coeff))

RECURSIVE PowLoop(_, _, _)
\* for _ in range(power): result *= self
PowLoop(result, t, k) ==
    IF k = 0 THEN result ELSE PowLoop(TermMul(result, t), t, k - 1)

\* PauliTerm.__pow__, for an integer power >= 0
TermPow(t, power) ==
    IF Len(get_qubits(t)) = 0
    THEN term_with_coeff(t, COne)
    ELSE PowLoop(ID, t, power)

-----------------------------------------------------------------------------
(* check_commutation *)

\* coincident_parity over the qubits of p1 alone
coincident_parity_NoIntersection(p1, p2) ==
    Cardinality({idx \in Keys(p1.ops) :
                    GetItem(p1.ops, idx) # GetItem(p2.ops, idx)}) % 2 = 0

\* coincident_parity counting the qubits with the same operator
coincident_parity_Coincidences(p1, p2) ==
    Cardinality({idx \in Keys(p1.ops) \cap Keys(p2.ops) :
                    GetItem(p1.ops, idx) = GetItem(p2.ops, idx)}) % 2 = 0

\* check_commutation.coincident_parity: the qubits that both terms act on
\* with different operators are even in number
coincident_parity(p1, p2) ==
    LET non_similar == Cardinality({idx \in Keys(p1.ops) \cap Keys(p2.ops) :
                                       GetItem(p1.ops, idx) # GetItem(p2.ops, idx)})
    IN  non_similar % 2 = 0

check_commutation(pauli_list, pauli_two) ==
    \A i \in DOMAIN pauli_list : coincident_parity(pauli_list[i], pauli_two)

-----------------------------------------------------------------------------
(* PauliSum *)

\* __init__ that keeps an empty list of terms
PauliSumKeepEmpty(terms) == terms

\* PauliSum.__init__: an empty list of terms becomes [0.0 * ID()]
PauliSum(terms) ==
    IF Len(terms) = 0 THEN <<TermMulNumber(ID, CZero)>> ELSE terms

RECURSIVE LikeKeys(_, _, _)
\* the keys of like_terms, in the order of their insertion
LikeKeys(terms, i, keys) ==
    IF i > Len(terms)
    THEN keys
    ELSE LET key == operations_as_set(terms[i])
         IN  IF \E k \in DOMAIN keys : keys[k] = key
             THEN LikeKeys(terms, i + 1, keys)
             ELSE LikeKeys(terms, i + 1, Append(keys, key))

\* like_terms[key]: the terms of that key, in the order of the sum
LikeTerms(terms, key) == SelectSeq(terms, LAMBDA t : operations_as_set(t) = key)

RECURSIVE SumCoefs(_, _)
\* sum(t.coefficient for t in term_list)
SumCoefs(term_list, i) ==
    IF i > Len(term_list)
    THEN CZero
    ELSE CAdd(term_list[i].coef, SumCoefs(term_list, i + 1))

\* the loop body with the operator order of the last member of the group
SimplifyGroupLastOrder(term_list) ==
    LET first_term == term_list[1]
        coeff == SumCoefs(term_list, 1)
    IN  IF Len(term_list) = 1 /\ ~IsClose(first_term.coef, CZero)
        THEN <<first_term>>
        ELSE IF ~IsClose(coeff, CZero)
             THEN <<term_with_coeff(term_list[Len(term_list)], coeff)>>
             ELSE <<>>

\* the loop body that tests the coefficient of the first member, not the sum
SimplifyGroupWrongTest(term_list) ==
    LET first_term == term_list[1]
        coeff == SumCoefs(term_list, 1)
    IN  IF ~IsClose(first_term.coef, CZero)
        THEN <<term_with_coeff(term_list[1], coeff)>>
        ELSE <<>>

\* the loop body that keeps a group of one term whatever its coefficient
SimplifyGroupKeepZero(term_list) ==
    LET first_term == term_list[1]
        coeff == SumCoefs(term_list, 1)
    IN  IF Len(term_list) = 1
        THEN <<first_term>>
        ELSE IF ~IsClose(coeff, CZero)
             THEN <<term_with_coeff(term_list[1], coeff)>>
             ELSE <<>>

\* the body of the loop over like_terms.values(): what one group appends
SimplifyGroup(term_list) ==
    LET first_term == term_list[1]
        coeff == SumCoefs(term_list, 1)
    IN  IF Len(term_list) = 1 /\ ~IsClose(first_term.coef, CZero)
        THEN <<first_term>>
        ELSE IF ~IsClose(coeff, CZero)
             THEN <<term_with_coeff(term_list[1], coeff)>>
             ELSE <<>>

RECURSIVE SimplifyGroups(_, _, _)
SimplifyGroups(terms, keys, k) ==
    IF k > Len(keys)
    THEN <<>>
    ELSE SimplifyGroup(LikeTerms(terms, keys[k])) \o SimplifyGroups(terms, keys, k + 1)

\* simplify_pauli_sum / PauliSum.simplify
simplify_pauli_sum(pauli_sum) ==
    PauliSum(SimplifyGroups(pauli_sum, LikeKeys(pauli_sum, 1, <<>>), 1))

\* set(self.terms): a term is found in a set when its hash and itself equal
\* those of a member.  On Gaussian integers the hashes of two terms are equal
\* exactly when the terms are (TermEq), so the set is the set of the hashes.
TermSet(terms) == {TermHash(terms[i]) : i \in DOMAIN terms}

\* PauliSum.__eq__ with a PauliSum
SumEq(self, other) ==
    IF Len(self) # Len(other)
    THEN FALSE
    ELSE TermSet(self) = TermSet(other)

\* PauliSum.__eq__ with a PauliTerm, and PauliTerm.__eq__ with a PauliSum
SumEqTerm(self, other) == SumEq(self, PauliSum(<<other>>))

\* PauliSum.__add__ with a PauliSum
SumAdd(self, other) == simplify_pauli_sum(PauliSum(self \o other))

\* PauliSum.__add__ with a PauliTerm
SumAddTerm(self, other) == SumAdd(self, PauliSum(<<other>>))

\* PauliSum.__add__ and __radd__ with a number
SumAddNumber(self, other) == SumAdd(self, PauliSum(<<TermMulNumber(ID, other)>>))

\* PauliTerm.__add__ with a PauliTerm
TermAdd(self, other) == simplify_pauli_sum(PauliSum(<<self, other>>))

\* PauliTerm.__add__ with a number
TermAddNumber(self, other) == TermAdd(self, PauliTerm("I", 0, other))

\* PauliTerm.__radd__
TermRAdd(self, other) == TermAdd(PauliTerm("I", 0, other), self)

\* PauliTerm.__add__ with a PauliSum
TermAddSum(self, other) == SumAddTerm(other, self)

\* [lterm * rterm for lterm, rterm in product(self.terms, other_terms)],
\* other_terms the terms of a PauliSum
RECURSIVE ProductTerms(_, _, _, _)
ProductTerms(terms, other_terms, i, j) ==
    IF i > Len(terms)
    THEN <<>>
    ELSE IF j > Len(other_terms)
         THEN ProductTerms(terms, other_terms, i + 1, 1)
         ELSE <<TermMul(terms[i], other_terms[j])>>
                  \o ProductTerms(terms, other_terms, i, j + 1)

\* PauliSum.__mul__ with a PauliSum
SumMul(self, other) ==
    simplify_pauli_sum(PauliSum(ProductTerms(self, other, 1, 1)))

\* PauliSum.__mul__ with a PauliTerm: other_terms = [other]
SumMulTerm(self, other) ==
    simplify_pauli_sum(PauliSum(ProductTerms(self, <<other>>, 1, 1)))

\* PauliSum.__mul__ with a number: other_terms = [other]
SumMulNumber(self, other) ==
    simplify_pauli_sum(PauliSum([i \in DOMAIN self |-> TermMulNumber(self[i], other)]))

\* PauliSum.__rmul__
SumRMul(self, other) ==
    simplify_pauli_sum(PauliSum(
        [i \in DOMAIN self |-> [ops |-> self[i].ops, coef |-> CMul(self[i].coef, other)]]))

\* PauliTerm.__mul__ with a PauliSum
TermMulSum(self, other) == simplify_pauli_sum(SumMul(PauliSum(<<self>>), other))

\* PauliTerm.__rmul__
TermRMul(self, other) == TermMulNumber(self, other)

\* PauliTerm.__sub__: self + -1. * other, other a PauliTerm, a number, a PauliSum
TermSub(self, other) == TermAdd(self, TermRMul(other, CNegOne))
TermSubNumber(self, other) == TermAddNumber(self, CMul(CNegOne, other))
TermSubSum(self, other) == TermAddSum(self, SumRMul(other, CNegOne))

\* PauliTerm.__rsub__: other + -1. * self, other a number
TermRSub(self, other) == TermRAdd(TermRMul(self, CNegOne), other)

\* PauliSum.__sub__: self + -1. * other
SumSub(self, other) == SumAdd(self, SumRMul(other, CNegOne))
SumSubTerm(self, other) == SumAddTerm(self, TermRMul(other, CNegOne))
SumSubNumber(self, other) == SumAddNumber(self, CMul(CNegOne, other))

\* PauliSum.__rsub__: other + -1. * self, other a number
SumRSub(self, other) == SumAddNumber(SumRMul(self, CNegOne), other)

\* PauliSum.get_qubits
SumQubits(self) == UNION {Keys(self[i].ops) : i \in DOMAIN self}

RECURSIVE MulByTerms(_, _, _)
\* for term in terms: result *= term
MulByTerms(result, terms, i) ==
    IF i > Len(terms)
    THEN result
    ELSE MulByTerms(SumMulTerm(result, terms[i]), terms, i + 1)

RECURSIVE QubitIdentities(_, _)
\* PauliTerm("I", qubit_id) for term in self.terms for qubit_id in term.get_qubits()
QubitIdentities(terms, i) ==
    IF i > Len(terms)
    THEN <<>>
    ELSE [k \in DOMAIN terms[i].ops |-> PauliTerm("I", terms[i].ops[k][1], COne)]
             \o QubitIdentities(terms, i + 1)

RECURSIVE SumPowLoop(_, _, _)
\* for _ in range(power): result *= self
SumPowLoop(result, self, k) ==
    IF k = 0 THEN result ELSE SumPowLoop(SumMul(result, self), self, k - 1)

\* PauliSum.__pow__, for an integer power >= 0
SumPow(self, power) ==
    LET result == PauliSum(<<ID>>)
        start == IF SumQubits(self) = {}
                 THEN MulByTerms(result,
                                 [i \in DOMAIN self |-> term_with_coeff(self[i], COne)], 1)
                 ELSE MulByTerms(result, QubitIdentities(self, 1), 1)
    IN  SumPowLoop(start, self, power)

-----------------------------------------------------------------------------
(* Compact strings.  The string of a term is its coefficient (the number    *)
(* that str_coef parses to) and its operator string str_op, a sequence of   *)
(* characters; the string of a sum is the list of the strings of its terms, *)
(* the pieces between the "+" signs.                                        *)

Digits == <<"0", "1", "2", "3", "4", "5", "6", "7", "8", "9">>

\* int(factor.group(2)), for one digit
DigitValue(d) == (CHOOSE k \in DOMAIN Digits : Digits[k] = d) - 1

\* re.match(r'^(([XYZ])(\d+))+$', str_op), for indices of one digit
MatchesOperator(str_op) ==
    /\ Len(str_op) > 0
    /\ Len(str_op) % 2 = 0
    /\ \A k \in DOMAIN str_op :
           IF k % 2 = 1
           THEN str_op[k] \in {"X", "Y", "Z"}
           ELSE \E d \in DOMAIN Digits : Digits[d] = str_op[k]

RECURSIVE MulStrFactors(_, _, _)
\* for factor in re.finditer(r'([XYZ])(\d+)', str_op): op *= cls(...)
MulStrFactors(op, str_op, k) ==
    IF k > Len(str_op)
    THEN op
    ELSE MulStrFactors(TermMul(op, PauliTerm(str_op[k], DigitValue(str_op[k + 1]), COne)),
                       str_op, k + 2)

\* PauliTerm.from_compact_str, for a string that parses
TermFromCompactStr(str_pauli_term) ==
    LET op == TermMulNumber(sI, str_pauli_term.coef)
    IN  IF str_pauli_term.op = <<"I">>
        THEN op
        ELSE MulStrFactors(op, str_pauli_term.op, 1)

\* PauliSum.from_compact_str, for a string whose pieces parse
SumFromCompactStr(str_terms) ==
    simplify_pauli_sum(PauliSum([k \in DOMAIN str_terms |-> TermFromCompactStr(str_terms[k])]))

-----------------------------------------------------------------------------
(* PauliTerm.from_list, and the operands the operations are applied to *)

RECURSIVE FromListOps(_, _, _)
\* for op, index in terms_list: if op != "I": pterm._ops[index] = op
FromListOps(terms_list, i, ops) ==
    IF i > Len(terms_list)
    THEN ops
    ELSE FromListOps(terms_list, i + 1,
                     IF terms_list[i][1] # "I"
                     THEN SetItem(ops, terms_list[i][2], terms_list[i][1])
                     ELSE ops)

\* PauliTerm.from_list, for a list of (op, index) tuples on distinct qubits
from_list(terms_list, coefficient) ==
    [ops |-> FromListOps(terms_list, 1, <<>>), coef |-> coefficient]

\* the lists [(op_0, 0), ..., (op_MaxQubit, MaxQubit)]
TermLists ==
    {[i \in 1..(MaxQubit + 1) |-> <<f[i - 1], i - 1>>] : f \in [Qubits -> PAULI_OPS]}

Coefs == {CZero, COne, CNegOne, CI, <<2, 0>>}

Terms == {from_list(l, c) : l \in TermLists, c \in Coefs}

\* the factors of a triple product: every support, and the coefficients that
\* tell the three factors apart
TermsA == {from_list(l, c) : l \in TermLists, c \in {<<2, 0>>, CI}}
TermsB == {from_list(l, c) : l \in TermLists, c \in {CI}}
TermsC == {from_list(l, c) : l \in TermLists, c \in {CNegOne}}

NoTerm == ID
NoSum == <<ID>>

-----------------------------------------------------------------------------
(* The term algebra: one action per operation, applied to any operands *)

TypeOK ==
    /\ pc \in STRING
    /\ pw \in Int
    /\ nops \in Nat
    /\ rb1 \in BOOLEAN
    /\ rb2 \in BOOLEAN

\* the registers before any operation, the first operands drawn from the
\* terms and the sums given
InitRegisters(terms, sums) ==
    /\ pc = "init"
    /\ ta \in terms
    /\ tb = NoTerm /\ tc = NoTerm
    /\ sa \in sums
    /\ sb = NoSum
    /\ pw = 0
    /\ rt1 = NoTerm /\ rt2 = NoTerm
    /\ rs1 = NoSum /\ rs2 = NoSum
    /\ rb1 = FALSE /\ rb2 = FALSE
    /\ nops = 0
    /\ rl = <<>>
    /\ exc = "none"
    /\ trotter_order = 1
    /\ trotter_steps = 1

\* the specifications of operations on values hold no objects
InitWith(terms, sums) ==
    /\ InitRegisters(terms, sums)
    /\ heap = <<>>
    /\ before = <<>>

InitTerm == InitWith(Terms, {NoSum})

\* a * b and b * a
Mul ==
    /\ pc = "init"
    /\ \E b \in Terms :
        /\ pc' = "mul"
        /\ tb' = b
        /\ rt1' = TermMul(ta, b)
        /\ rt2' = TermMul(b, ta)
        /\ UNCHANGED <<ta, tc, sa, sb, pw, rs1, rs2, rb1, rb2, nops, rl, exc, trotter_order, trotter_steps, heap, before>>

\* a * ID()
MulId ==
    /\ pc = "init"
    /\ pc' = "mulid"
    /\ tb' = ID
    /\ rt1' = TermMul(ta, ID)
    /\ UNCHANGED <<ta, tc, sa, sb, pw, rt2, rs1, rs2, rb1, rb2, nops, rl, exc, trotter_order, trotter_steps, heap, before>>

\* a + 0, and (a + 0) == a
AddZero ==
    /\ pc = "init"
    /\ pc' = "addzero"
    /\ rs1' = TermAddNumber(ta, CZero)
    /\ rb1' = SumEqTerm(TermAddNumber(ta, CZero), ta)
    /\ UNCHANGED <<ta, tb, tc, sa, sb, pw, rt1, rt2, rs2, rb2, nops, rl, exc, trotter_order, trotter_steps, heap, before>>

\* a ** n
Pow ==
    /\ pc = "init"
    /\ \E n \in 0..MaxPower :
        /\ pc' = "pow"
        /\ pw' = n
        /\ rt1' = TermPow(ta, n)
        /\ UNCHANGED <<ta, tb, tc, sa, sb, rt2, rs1, rs2, rb1, rb2, nops, rl, exc, trotter_order, trotter_steps, heap, before>>

\* check_commutation([a], b), check_commutation([b], a), a * b and b * a
Commute ==
    /\ pc = "init"
    /\ \E b \in Terms :
        /\ pc' = "commute"
        /\ tb' = b
        /\ rb1' = check_commutation(<<ta>>, b)
        /\ rb2' = check_commutation(<<b>>, ta)
        /\ rt1' = TermMul(ta, b)
        /\ rt2' = TermMul(b, ta)
        /\ UNCHANGED <<ta, tc, sa, sb, pw, rs1, rs2, nops, rl, exc, trotter_order, trotter_steps, heap, before>>

NextTerm == Mul \/ MulId \/ AddZero \/ Pow \/ Commute

SpecTerm == InitTerm /\ [][NextTerm]_vars

InitAssoc == InitWith(TermsA, {NoSum})

\* (a * b) * c and a * (b * c)
MulAssoc ==
    /\ pc = "init"
    /\ \E b \in TermsB, c \in TermsC :
        /\ pc' = "assoc"
        /\ tb' = b /\ tc' = c
        /\ rt1' = TermMul(TermMul(ta, b), c)
        /\ rt2' = TermMul(ta, TermMul(b, c))
        /\ UNCHANGED <<ta, sa, sb, pw, rs1, rs2, rb1, rb2, nops, rl, exc, trotter_order, trotter_steps, heap, before>>

NextAssoc == MulAssoc

SpecAssoc == InitAssoc /\ [][NextAssoc]_vars

-----------------------------------------------------------------------------
(* The simplifier and the equality of sums *)

\* all the lists of at most n members of set
RECURSIVE ListsUpTo(_, _)
ListsUpTo(set, n) ==
    IF n = 0
    THEN {<<>>}
    ELSE LET shorter == ListsUpTo(set, n - 1)
         IN  shorter \cup {Append(l, x) : l \in {m \in shorter : Len(m) = n - 1}, x \in set}

\* terms of five supports, one of them in both orders of its operators
SumTerms ==
    {from_list(l, c) :
        l \in {<<>>, <<<<"X", 0>>>>, <<<<"Z", 0>>>>,
               <<<<"X", 0>>, <<"Z", 1>>>>, <<<<"Z", 1>>, <<"X", 0>>>>},
        c \in {CZero, COne, CNegOne, <<2, 0>>}}

\* PauliSum(terms) for every list of at most MaxLen of them
SumOperands == {PauliSum(l) : l \in ListsUpTo(SumTerms, MaxLen)}

InitSimplify == InitWith({NoTerm}, SumOperands)

\* S.simplify() and S.simplify().simplify()
Simplify ==
    /\ pc = "init"
    /\ pc' = "simplify"
    /\ rs1' = simplify_pauli_sum(sa)
    /\ rs2' = simplify_pauli_sum(simplify_pauli_sum(sa))
    /\ UNCHANGED <<ta, tb, tc, sa, sb, pw, rt1, rt2, rb1, rb2, nops, rl, exc, trotter_order, trotter_steps, heap, before>>

NextSimplify == Simplify

SpecSimplify == InitSimplify /\ [][NextSimplify]_vars

EqTerms ==
    {from_list(<<<<"X", 0>>>>, COne), from_list(<<<<"X", 0>>>>, <<2, 0>>),
     from_list(<<<<"X", 0>>, <<"Z", 1>>>>, COne),
     from_list(<<<<"Z", 1>>, <<"X", 0>>>>, COne)}

EqOperands == {PauliSum(l) : l \in ListsUpTo(EqTerms, MaxLen)}

InitEq == InitWith({NoTerm}, EqOperands)

\* S == T
Eq ==
    /\ pc = "init"
    /\ \E T \in EqOperands :
        /\ pc' = "eq"
        /\ sb' = T
        /\ rb1' = SumEq(sa, T)
        /\ UNCHANGED <<ta, tb, tc, sa, pw, rt1, rt2, rs1, rs2, rb2, nops, rl, exc, trotter_order, trotter_steps, heap, before>>

NextEq == Eq

SpecEq == InitEq /\ [][NextEq]_vars

-----------------------------------------------------------------------------
(* Arithmetic that returns sums.  sa holds a PauliSum: first one that was   *)
(* constructed from a list of terms, then the sum the last operation        *)
(* returned; every operation takes its other operands from the terms, the   *)
(* numbers and the sums below, or takes sa again.                           *)

AlgTerms ==
    {from_list(<<<<"X", 0>>>>, COne), from_list(<<<<"Z", 0>>>>, CI),
     from_list(<<<<"X", 0>>, <<"Y", 1>>>>, CNegOne), from_list(<<>>, CZero)}

AlgNumbers == {CZero, CNegOne, <<2, 0>>}

\* PauliSum(terms) for lists of terms that are empty, repeat a term, cancel,
\* or hold a term of coefficient zero
AlgSums ==
    {PauliSum(l) :
        l \in {<<>>,
               <<from_list(<<<<"X", 0>>>>, COne)>>,
               <<from_list(<<<<"X", 0>>>>, COne), from_list(<<<<"X", 0>>>>, COne)>>,
               <<from_list(<<<<"X", 0>>>>, COne), from_list(<<<<"X", 0>>>>, CNegOne)>>,
               <<from_list(<<<<"Y", 1>>, <<"X", 0>>>>, CZero)>>,
               <<from_list(<<<<"Z", 0>>>>, <<2, 0>>),
                 from_list(<<<<"Y", 1>>, <<"X", 0>>>>, CI)>>}}

AlgStrTerms ==
    {[coef |-> COne, op |-> <<"X", "0">>],
     [coef |-> COne, op |-> <<"X", "0", "X", "0">>],
     [coef |-> CZero, op |-> <<"Y", "1", "X", "0">>],
     [coef |-> CNegOne, op |-> <<"I">>]}

AlgStrings == ListsUpTo(AlgStrTerms, 2) \ {<<>>}

InitAlg == InitWith({NoTerm}, AlgSums)

\* the coefficients of a session stay within MaxCoef
Bounded(S) ==
    \A i \in DOMAIN S :
        /\ S[i].coef[1] \in -MaxCoef..MaxCoef
        /\ S[i].coef[2] \in -MaxCoef..MaxCoef

\* what an operation leaves: the sum it returned in sa, one more operation
Returned(result) ==
    /\ Bounded(result)
    /\ pc' = "returned"
    /\ sa' = result
    /\ rb1' = TRUE
    /\ nops' = nops + 1
    /\ UNCHANGED <<ta, tb, tc, sb, pw, rt1, rt2, rs1, rs2, rb2, rl, exc, trotter_order, trotter_steps, heap, before>>

OtherSums == AlgSums \cup {sa}

TermAddTerm ==
    /\ nops < MaxOps
    /\ \E a \in AlgTerms, b \in AlgTerms : Returned(TermAdd(a, b))

TermAddPauliSum ==
    /\ nops < MaxOps
    /\ \E a \in AlgTerms : Returned(TermAddSum(a, sa))

TermAddNum ==
    /\ nops < MaxOps
    /\ \E a \in AlgTerms, x \in AlgNumbers : Returned(TermAddNumber(a, x))

NumAddTerm ==
    /\ nops < MaxOps
    /\ \E a \in AlgTerms, x \in AlgNumbers : Returned(TermRAdd(a, x))

SumAddSum ==
    /\ nops < MaxOps
    /\ \E S \in OtherSums :
           \/ Returned(SumAdd(sa, S))
           \/ Returned(SumAdd(S, sa))

SumAddPauliTerm ==
    /\ nops < MaxOps
    /\ \E a \in AlgTerms : Returned(SumAddTerm(sa, a))

SumAddNum ==
    /\ nops < MaxOps
    /\ \E x \in AlgNumbers : Returned(SumAddNumber(sa, x))

NumAddSum ==
    /\ nops < MaxOps
    /\ \E x \in AlgNumbers : Returned(SumAddNumber(sa, x))

TermSubTerm ==
    /\ nops < MaxOps
    /\ \E a \in AlgTerms, b \in AlgTerms : Returned(TermSub(a, b))

TermSubNum ==
    /\ nops < MaxOps
    /\ \E a \in AlgTerms, x \in AlgNumbers : Returned(TermSubNumber(a, x))

TermSubPauliSum ==
    /\ nops < MaxOps
    /\ \E a \in AlgTerms : Returned(TermSubSum(a, sa))

NumSubTerm ==
    /\ nops < MaxOps
    /\ \E a \in AlgTerms, x \in AlgNumbers : Returned(TermRSub(a, x))

SumSubSum ==
    /\ nops < MaxOps
    /\ \E S \in OtherSums :
           \/ Returned(SumSub(sa, S))
           \/ Returned(SumSub(S, sa))

SumSubPauliTerm ==
    /\ nops < MaxOps
    /\ \E a \in AlgTerms : Returned(SumSubTerm(sa, a))

SumSubNum ==
    /\ nops < MaxOps
    /\ \E x \in AlgNumbers : Returned(SumSubNumber(sa, x))

NumSubSum ==
    /\ nops < MaxOps
    /\ \E x \in AlgNumbers : Returned(SumRSub(sa, x))

TermMulPauliSum ==
    /\ nops < MaxOps
    /\ \E a \in AlgTerms : Returned(TermMulSum(a, sa))

SumMulPauliTerm ==
    /\ nops < MaxOps
    /\ \E a \in AlgTerms : Returned(SumMulTerm(sa, a))

SumMulSum ==
    /\ nops < MaxOps
    /\ \E S \in OtherSums :
           \/ Returned(SumMul(sa, S))
           \/ Returned(SumMul(S, sa))

NumMulSum ==
    /\ nops < MaxOps
    /\ \E x \in AlgNumbers : Returned(SumRMul(sa, x))

SumMulNum ==
    /\ nops < MaxOps
    /\ \E x \in AlgNumbers : Returned(SumMulNumber(sa, x))

SumPower ==
    /\ nops < MaxOps
    /\ \E n \in 0..MaxPower : Returned(SumPow(sa, n))

FromCompactStr ==
    /\ nops < MaxOps
    /\ \E str \in AlgStrings : Returned(SumFromCompactStr(str))

NextAlg ==
    \/ TermAddTerm \/ TermAddPauliSum \/ TermAddNum \/ NumAddTerm
    \/ SumAddSum \/ SumAddPauliTerm \/ SumAddNum \/ NumAddSum
    \/ TermSubTerm \/ TermSubNum \/ TermSubPauliSum \/ NumSubTerm
    \/ SumSubSum \/ SumSubPauliTerm \/ SumSubNum \/ NumSubSum
    \/ TermMulPauliSum \/ SumMulPauliTerm \/ SumMulSum \/ NumMulSum \/ SumMulNum
    \/ SumPower \/ FromCompactStr

SpecAlg == InitAlg /\ [][NextAlg]_vars

-----------------------------------------------------------------------------
(* commuting_sets *)

\* the loop over the groups with every commuting group taking the term
AssignLoopEveryGroup(groups, pauli_term, p, isAssigned_bool) ==
    LET ps == {q \in p..Len(groups) : check_commutation(groups[q], pauli_term)}
    IN  <<[q \in DOMAIN groups |->
             IF q \in ps THEN Append(groups[q], pauli_term) ELSE groups[q]],
          isAssigned_bool \/ ps # {}>>

\* the loop over the groups with the last commuting group taking the term
AssignLoopLastFit(groups, pauli_term, p, isAssigned_bool) ==
    LET ps == {q \in p..Len(groups) : check_commutation(groups[q], pauli_term)}
        last == CHOOSE q \in ps : \A r \in ps : r <= q
    IN  IF ps = {}
        THEN <<groups, isAssigned_bool>>
        ELSE <<[groups EXCEPT ![last] = Append(@, pauli_term)], TRUE>>

RECURSIVE AssignLoop(_, _, _, _)
\* for p in range(m_s), from group p on: the groups and isAssigned_bool after
\* the loop.  m_s is len(groups) all along.
AssignLoop(groups, pauli_term, p, isAssigned_bool) ==
    IF p > Len(groups)
    THEN <<groups, isAssigned_bool>>
    ELSE IF ~isAssigned_bool /\ check_commutation(groups[p], pauli_term)
         THEN AssignLoop([groups EXCEPT ![p] = Append(@, pauli_term)],
                         pauli_term, p + 1, TRUE)
         ELSE AssignLoop(groups, pauli_term, p + 1, isAssigned_bool)

RECURSIVE GroupLoop(_, _, _)
\* for j in range(1, m_terms), from term j on (the terms are numbered from 1)
GroupLoop(groups, terms, j) ==
    IF j > Len(terms)
    THEN groups
    ELSE LET after == AssignLoop(groups, terms[j], 1, FALSE)
         IN  GroupLoop(IF after[2] THEN after[1] ELSE Append(groups, <<terms[j]>>),
                       terms, j + 1)

\* commuting_sets(pauli_terms), for a PauliSum (its list of terms is not empty)
commuting_sets(pauli_terms) == GroupLoop(<<<<pauli_terms[1]>>>>, pauli_terms, 2)

\* the terms that are grouped: supports that commute and that do not, the
\* identity, a repeated support and a zero coefficient
GroupTerms ==
    { from_list(<<<<"X", 0>>>>, COne),
      from_list(<<<<"X", 0>>>>, <<2, 0>>),
      from_list(<<<<"Z", 0>>>>, COne),
      from_list(<<<<"X", 0>>, <<"X", 1>>>>, COne),
      from_list(<<<<"Y", 0>>, <<"Z", 1>>>>, CZero),
      from_list(<<<<"Z", 1>>>>, CI),
      ID }

GroupOperands == ListsUpTo(GroupTerms, MaxLen) \ {<<>>}

InitGroups == InitWith({NoTerm}, GroupOperands)

\* commuting_sets(sa)
CommutingSets ==
    /\ pc = "init"
    /\ pc' = "groups"
    /\ rl' = commuting_sets(sa)
    /\ UNCHANGED <<ta, tb, tc, sa, sb, pw, rt1, rt2, rs1, rs2, rb1, rb2, nops, exc, trotter_order, trotter_steps, heap, before>>

NextGroups == CommutingSets

SpecGroups == InitGroups /\ [][NextGroups]_vars

-----------------------------------------------------------------------------
(* Real numbers.  The floats of the exponentials (weights, angles and the   *)
(* coefficients they scale) are the numbers (a + b * p1) / d with integers  *)
(* a, b and d > 0 in lowest terms, p1 the constant 1 / (4 - 4 ** (1 / 3))   *)
(* of suzuki_trotter.  p1 is irrational, so two of them are equal exactly   *)
(* when a, b and d are.  The arithmetic is exact: the rounding of a float   *)
(* operation is not modelled.                                               *)

Abs(n) == IF n < 0 THEN -n ELSE n

RECURSIVE GCD(_, _)
GCD(m, n) == IF n = 0 THEN m ELSE GCD(n, m % n)

\* (a + b * p1) / d in lowest terms, d # 0
Real(a, b, d) ==
    LET g == GCD(GCD(Abs(a), Abs(b)), Abs(d))
        sg == IF d < 0 THEN -g ELSE g
    IN  [a |-> a \div sg, b |-> b \div sg, d |-> d \div sg]

\* float(n)
RInt(n) == Real(n, 0, 1)

RZero == RInt(0)

\* x + y
RAdd(x, y) == Real(x.a * y.d + y.a * x.d, x.b * y.d + y.b * x.d, x.d * y.d)

\* -x
RNeg(x) == Real(-x.a, -x.b, x.d)

\* x * y, one of x and y a rational (b = 0)
RMul(x, y) ==
    IF y.b = 0 THEN Real(x.a * y.a, x.b * y.a, x.d * y.d)
    ELSE Real(x.a * y.a, y.b * x.a, x.d * y.d)

\* x / n, n an integer that is not 0
RDivInt(x, n) == Real(x.a, x.b, x.d * n)

\* a complex number of two reals: the Python complex of a Gaussian integer
CFloat(c) == <<RInt(c[1]), RInt(c[2])>>

\* the term with its coefficient as a complex number of two reals
FloatTerm(t) == [ops |-> t.ops, coef |-> CFloat(t.coef)]

\* np.isclose(x, 0) for a real: the reals here are 0 or above the tolerance
RIsCloseZero(x) == x = RZero

-----------------------------------------------------------------------------
(* Programs: a Program is the list of its instructions, an instruction a    *)
(* gate with its angle and its qubits.  An angle is halfpi * (pi / 2) + r,   *)
(* r a real; a gate without a parameter has the angle 0.                     *)

Angle(r) == [halfpi |-> 0, r |-> r]
NoAngle == Angle(RZero)
HalfPi == [halfpi |-> 1, r |-> RZero]
NegHalfPi == [halfpi |-> -1, r |-> RZero]

Gate(name, angle, qubits) == [gate |-> name, angle |-> angle, qubits |-> qubits]

H(q) == Gate("H", NoAngle, <<q>>)
X(q) == Gate("X", NoAngle, <<q>>)
CNOT(control, target) == Gate("CNOT", NoAngle, <<control, target>>)
RX(angle, q) == Gate("RX", angle, <<q>>)
RZ(angle, q) == Gate("RZ", angle, <<q>>)
PHASE(angle, q) == Gate("PHASE", angle, <<q>>)

\* list(reversed(p.instructions))
reverse_hack(p) == [i \in DOMAIN p |-> p[Len(p) + 1 - i]]

-----------------------------------------------------------------------------
(* is_identity, is_zero, exponential_map.  The terms here have coefficients *)
(* that are complex numbers of two reals.                                   *)

\* np.isclose(coefficient, 0) for a complex number of two reals
CIsCloseZero(c) == RIsCloseZero(c[1]) /\ RIsCloseZero(c[2])

\* is_identity of a PauliTerm
is_identity(term) == Len(term.ops) = 0 /\ ~CIsCloseZero(term.coef)

\* is_zero of a PauliTerm
is_zero(pauli_object) == CIsCloseZero(pauli_object.coef)

\* prev_index and highest_target_index before the first operator (None)
NoIndex == -1

RECURSIVE GeneralCaseLoop(_, _, _)
\* for index, op in pauli_term, from item i on.  st holds change_to_z_basis,
\* change_to_original_basis, cnot_seq, prev_index and highest_target_index
GeneralCaseLoop(pauli_term, i, st) ==
    IF i > Len(pauli_term.ops)
    THEN st
    ELSE LET index == pauli_term.ops[i][1]
             op == pauli_term.ops[i][2]
             based ==
                 IF op = "X"
                 THEN [st EXCEPT !.to_z = Append(@, H(index)),
                                 !.to_original = Append(@, H(index))]
                 ELSE IF op = "Y"
                 THEN [st EXCEPT !.to_z = Append(@, RX(HalfPi, index)),
                                 !.to_original = Append(@, RX(NegHalfPi, index))]
                 ELSE st
             linked ==
                 IF st.prev_index # NoIndex
                 THEN [based EXCEPT !.cnot_seq = Append(@, CNOT(st.prev_index, index))]
                 ELSE based
         IN  IF op = "I"
             THEN GeneralCaseLoop(pauli_term, i + 1, st)
             ELSE GeneralCaseLoop(pauli_term, i + 1,
                                  [linked EXCEPT !.prev_index = index,
                                                 !.highest_target_index = index])

\* _exponentiate_general_case with the CNOTs repeated in the same order
exponentiate_general_case_NoReverse(pauli_term, param) ==
    LET st == GeneralCaseLoop(pauli_term, 1,
                  [to_z |-> <<>>, to_original |-> <<>>, cnot_seq |-> <<>>,
                   prev_index |-> NoIndex, highest_target_index |-> NoIndex])
        angle == RMul(RMul(RInt(2), pauli_term.coef[1]), param)
    IN  st.to_z \o st.cnot_seq
          \o <<RZ(Angle(angle), st.highest_target_index)>>
          \o st.cnot_seq \o st.to_original

\* _exponentiate_general_case, for a term with a real coefficient and a real
\* param
exponentiate_general_case(pauli_term, param) ==
    LET st == GeneralCaseLoop(pauli_term, 1,
                  [to_z |-> <<>>, to_original |-> <<>>, cnot_seq |-> <<>>,
                   prev_index |-> NoIndex, highest_target_index |-> NoIndex])
        angle == RMul(RMul(RInt(2), pauli_term.coef[1]), param)
    IN  st.to_z \o st.cnot_seq
          \o <<RZ(Angle(angle), st.highest_target_index)>>
          \o reverse_hack(st.cnot_seq) \o st.to_original

\* exponential_map that tests the coefficient of a term with operators only
exponential_map_raisesOnSupport(term) ==
    Len(term.ops) > 0 /\ ~RIsCloseZero(term.coef[2])

\* exponential_map raises TypeError: the imaginary part is not near zero
exponential_map_raises(term) == ~RIsCloseZero(term.coef[2])

\* the term that exp_wrap holds: term.coefficient = term.coefficient.real
exponential_map_term(term) == [ops |-> term.ops, coef |-> <<term.coef[1], RZero>>]

\* exp_wrap with the phase of the gadget not negated
exp_wrapPositivePhase(term, param) ==
    LET coeff == term.coef[1]
        held == [ops |-> term.ops, coef |-> <<term.coef[1], RZero>>]
    IN  IF Len(held.ops) = 0 /\ ~CIsCloseZero(held.coef)
        THEN <<X(0), PHASE(Angle(RMul(param, coeff)), 0),
               X(0), PHASE(Angle(RMul(param, coeff)), 0)>>
        ELSE IF CIsCloseZero(held.coef)
             THEN <<>>
             ELSE exponentiate_general_case(held, param)

\* exp_wrap without the branch of the zero term
exp_wrapNoZeroBranch(term, param) ==
    LET coeff == term.coef[1]
        held == [ops |-> term.ops, coef |-> <<term.coef[1], RZero>>]
    IN  IF Len(held.ops) = 0
        THEN <<X(0), PHASE(Angle(RMul(RNeg(param), coeff)), 0),
               X(0), PHASE(Angle(RMul(RNeg(param), coeff)), 0)>>
        ELSE exponentiate_general_case(held, param)

\* exp_wrap(param) of exponential_map(term), with coeff = term.coefficient.real
exp_wrap(term, param) ==
    LET coeff == term.coef[1]
        held == exponential_map_term(term)
    IN  IF is_identity(held)
        THEN <<X(0), PHASE(Angle(RMul(RNeg(param), coeff)), 0),
               X(0), PHASE(Angle(RMul(RNeg(param), coeff)), 0)>>
        ELSE IF is_zero(held)
             THEN <<>>
             ELSE exponentiate_general_case(held, param)

-----------------------------------------------------------------------------
(* The exponential of a term: exponential_map(ta), then exp_wrap(param) *)

ExpQubits == 0..(MaxQubit + 1)

\* the lists [(op_0, 0), ..., (op_n, n)] over the qubits of the exponentials,
\* and the same lists from the last qubit to the first
ExpLists ==
    LET n == MaxQubit + 2
    IN  {[i \in 1..n |-> <<f[i - 1], i - 1>>] : f \in [ExpQubits -> PAULI_OPS]}
        \cup {[i \in 1..n |-> <<f[n - i], n - i>>] : f \in [ExpQubits -> PAULI_OPS]}

ExpCoefs == {CZero, COne, <<-2, 0>>, CI, <<1, 1>>}

ExpTerms == {from_list(l, c) : l \in ExpLists, c \in ExpCoefs}

ExpParams == {-1, 0, 1, 2}

InitExp == InitWith(ExpTerms, {NoSum})

\* exponential_map(ta): raises, or returns exp_wrap and leaves the real part
\* of the coefficient in the term.  tb keeps the term as it was passed.
ExponentialMap ==
    /\ pc = "init"
    /\ tb' = ta
    /\ IF exponential_map_raises(FloatTerm(ta))
       THEN /\ pc' = "raised"
            /\ exc' = "TypeError"
            /\ UNCHANGED ta
       ELSE /\ pc' = "mapped"
            /\ exc' = "none"
            /\ ta' = [ta EXCEPT !.coef = <<ta.coef[1], 0>>]
    /\ UNCHANGED <<tc, sa, sb, pw, rt1, rt2, rs1, rs2, rb1, rb2, nops, rl, trotter_order, trotter_steps, heap, before>>

\* exp_wrap(param) of the function that exponential_map(ta) returned
ExpWrap ==
    /\ pc = "mapped"
    /\ \E param \in ExpParams :
        /\ pc' = "circuit"
        /\ pw' = param
        /\ rl' = exp_wrap(FloatTerm(ta), RInt(param))
        /\ UNCHANGED <<ta, tb, tc, sa, sb, rt1, rt2, rs1, rs2, rb1, rb2, nops, exc, trotter_order, trotter_steps, heap, before>>

NextExp == ExponentialMap \/ ExpWrap

SpecExp == InitExp /\ [][NextExp]_vars

-----------------------------------------------------------------------------
(* suzuki_trotter *)

\* p1 = p2 = p4 = p5 = 1.0 / (4 - (4 ** (1. / 3)))
p1 == Real(0, 1, 1)
p2 == p1
p4 == p1
p5 == p1

\* p3 = 1 - 4 * p1
p3 == RAdd(RInt(1), RNeg(RMul(RInt(4), p1)))

\* trotter_dict with -1.0 / 24 of order 3 taken as 1.0 / 24
trotter_dictSignSlip(order) ==
    CASE order = 1 -> << <<RInt(1), 0>>, <<RInt(1), 1>> >>
      [] order = 2 -> << <<Real(1, 0, 2), 0>>, <<RInt(1), 1>>, <<Real(1, 0, 2), 0>> >>
      [] order = 3 -> << <<Real(7, 0, 24), 0>>, <<Real(2, 0, 3), 1>>,
                         <<Real(3, 0, 4), 0>>, <<Real(-2, 0, 3), 1>>,
                         <<Real(1, 0, 24), 0>>, <<RInt(1), 1>> >>
      [] order = 4 -> << <<RDivInt(p5, 2), 0>>, <<p5, 1>>, <<RDivInt(p5, 2), 0>>,
                         <<RDivInt(p4, 2), 0>>, <<p4, 1>>, <<RDivInt(p4, 2), 0>>,
                         <<RDivInt(p3, 2), 0>>, <<p3, 1>>, <<RDivInt(p3, 2), 0>>,
                         <<RDivInt(p2, 2), 0>>, <<p2, 1>>, <<RDivInt(p2, 2), 0>>,
                         <<RDivInt(p1, 2), 0>>, <<p1, 1>>, <<RDivInt(p1, 2), 0>> >>

\* trotter_dict[order], for an order in 1..4: the list of (weight, operator)
trotter_dict(order) ==
    CASE order = 1 -> << <<RInt(1), 0>>, <<RInt(1), 1>> >>
      [] order = 2 -> << <<Real(1, 0, 2), 0>>, <<RInt(1), 1>>, <<Real(1, 0, 2), 0>> >>
      [] order = 3 -> << <<Real(7, 0, 24), 0>>, <<Real(2, 0, 3), 1>>,
                         <<Real(3, 0, 4), 0>>, <<Real(-2, 0, 3), 1>>,
                         <<Real(-1, 0, 24), 0>>, <<RInt(1), 1>> >>
      [] order = 4 -> << <<RDivInt(p5, 2), 0>>, <<p5, 1>>, <<RDivInt(p5, 2), 0>>,
                         <<RDivInt(p4, 2), 0>>, <<p4, 1>>, <<RDivInt(p4, 2), 0>>,
                         <<RDivInt(p3, 2), 0>>, <<p3, 1>>, <<RDivInt(p3, 2), 0>>,
                         <<RDivInt(p2, 2), 0>>, <<p2, 1>>, <<RDivInt(p2, 2), 0>>,
                         <<RDivInt(p1, 2), 0>>, <<p1, 1>>, <<RDivInt(p1, 2), 0>> >>

\* the keys of trotter_dict
TrotterOrders == 1..4

RECURSIVE Repeat(_, _)
\* list * n
Repeat(list, n) == IF n <= 0 THEN <<>> ELSE list \o Repeat(list, n - 1)

\* the exception that suzuki_trotter raises, "none" if it returns
suzuki_trotter_raises(order, steps) ==
    IF order \notin TrotterOrders THEN "KeyError"
    ELSE IF steps = 0 THEN "ZeroDivisionError"
    ELSE "none"

\* suzuki_trotter with the weights of the base sequence left as they are
suzuki_trotterNotDivided(order, steps) == Repeat(trotter_dict(order), steps)

\* suzuki_trotter(trotter_order, trotter_steps), when it does not raise
suzuki_trotter(order, steps) ==
    LET base == trotter_dict(order)
        order_slices == [i \in DOMAIN base |-> <<RDivInt(base[i][1], steps), base[i][2]>>]
    IN  Repeat(order_slices, steps)

-----------------------------------------------------------------------------
(* trotterize.  A result is [exc, prog]: the exception raised ("none" if    *)
(* the call returned) and the Program returned.                             *)

\* coeff * pauli_term for a float coeff: PauliTerm.__rmul__, the coefficient
\* of the product a complex number of two reals
TermRMulFloat(self, other) ==
    [ops |-> self.ops,
     coef |-> <<RMul(RInt(self.coef[1]), other), RMul(RInt(self.coef[2]), other)>>]

\* is_zero of a PauliSum
is_zero_sum(pauli_object) ==
    Len(pauli_object) = 1 /\ IsClose(pauli_object[1].coef, CZero)

\* exponential_map(term)(1): the exception, and the Program
Exponentiated(term) ==
    IF exponential_map_raises(term)
    THEN [exc |-> "TypeError", prog |-> <<>>]
    ELSE [exc |-> "none", prog |-> exp_wrap(term, RInt(1))]

RECURSIVE SlicesLoop(_, _, _, _, _)
\* for coeff, operator in order_slices, from slice i on
SlicesLoop(first_pauli_term, second_pauli_term, order_slices, i, prog) ==
    IF i > Len(order_slices)
    THEN [exc |-> "none", prog |-> prog]
    ELSE LET coeff == order_slices[i][1]
             operator == order_slices[i][2]
             done == IF operator = 0
                     THEN Exponentiated(TermRMulFloat(first_pauli_term, coeff))
                     ELSE Exponentiated(TermRMulFloat(second_pauli_term, coeff))
         IN  IF done.exc # "none"
             THEN done
             ELSE SlicesLoop(first_pauli_term, second_pauli_term, order_slices,
                             i + 1, prog \o done.prog)

\* trotterize that takes the schedule whatever the commutator
trotterizeNoShortcut(first_pauli_term, second_pauli_term, order, steps) ==
    IF ~(1 <= order /\ order < 5)
    THEN [exc |-> "ValueError", prog |-> <<>>]
    ELSE IF suzuki_trotter_raises(order, steps) # "none"
         THEN [exc |-> suzuki_trotter_raises(order, steps), prog |-> <<>>]
         ELSE SlicesLoop(first_pauli_term, second_pauli_term,
                         suzuki_trotter(order, steps), 1, <<>>)

\* trotterize that exponentiates all the slices of A before those of B
trotterizeSorted(first_pauli_term, second_pauli_term, order, steps) ==
    LET commutator == TermAdd(TermMul(first_pauli_term, second_pauli_term),
                              TermMul(TermRMul(second_pauli_term, CNegOne),
                                      first_pauli_term))
        one == Exponentiated(FloatTerm(first_pauli_term))
        two == Exponentiated(FloatTerm(second_pauli_term))
        slices == suzuki_trotter(order, steps)
    IN  IF ~(1 <= order /\ order < 5)
        THEN [exc |-> "ValueError", prog |-> <<>>]
        ELSE IF is_zero_sum(commutator)
        THEN IF one.exc # "none" THEN one
             ELSE IF two.exc # "none" THEN two
             ELSE [exc |-> "none", prog |-> one.prog \o two.prog]
        ELSE IF suzuki_trotter_raises(order, steps) # "none"
             THEN [exc |-> suzuki_trotter_raises(order, steps), prog |-> <<>>]
             ELSE SlicesLoop(first_pauli_term, second_pauli_term,
                             SelectSeq(slices, LAMBDA sl : sl[2] = 0)
                                \o SelectSeq(slices, LAMBDA sl : sl[2] = 1),
                             1, <<>>)

\* trotterize that looks at the order only when it needs the schedule
trotterizeLateOrderCheck(first_pauli_term, second_pauli_term, order, steps) ==
    LET commutator == TermAdd(TermMul(first_pauli_term, second_pauli_term),
                              TermMul(TermRMul(second_pauli_term, CNegOne),
                                      first_pauli_term))
        one == Exponentiated(FloatTerm(first_pauli_term))
        two == Exponentiated(FloatTerm(second_pauli_term))
    IN  IF is_zero_sum(commutator)
        THEN IF one.exc # "none" THEN one
             ELSE IF two.exc # "none" THEN two
             ELSE [exc |-> "none", prog |-> one.prog \o two.prog]
        ELSE IF ~(1 <= order /\ order < 5)
             THEN [exc |-> "ValueError", prog |-> <<>>]
        ELSE IF suzuki_trotter_raises(order, steps) # "none"
             THEN [exc |-> suzuki_trotter_raises(order, steps), prog |-> <<>>]
             ELSE SlicesLoop(first_pauli_term, second_pauli_term,
                             suzuki_trotter(order, steps), 1, <<>>)

\* trotterize(first_pauli_term, second_pauli_term, trotter_order, trotter_steps)
trotterize(first_pauli_term, second_pauli_term, order, steps) ==
    LET commutator == TermAdd(TermMul(first_pauli_term, second_pauli_term),
                              TermMul(TermRMul(second_pauli_term, CNegOne),
                                      first_pauli_term))
        one == Exponentiated(FloatTerm(first_pauli_term))
        two == Exponentiated(FloatTerm(second_pauli_term))
    IN  IF ~(1 <= order /\ order < 5)
        THEN [exc |-> "ValueError", prog |-> <<>>]
        ELSE IF is_zero_sum(commutator)
        THEN IF one.exc # "none" THEN one
             ELSE IF two.exc # "none" THEN two
             ELSE [exc |-> "none", prog |-> one.prog \o two.prog]
        ELSE IF suzuki_trotter_raises(order, steps) # "none"
             THEN [exc |-> suzuki_trotter_raises(order, steps), prog |-> <<>>]
             ELSE SlicesLoop(first_pauli_term, second_pauli_term,
                             suzuki_trotter(order, steps), 1, <<>>)

\* the two terms of a Trotter product: supports that commute and that do not,
\* on one and on two qubits, the identity, a zero and an imaginary coefficient
TrotterTerms ==
    { from_list(<<<<"X", 0>>>>, COne),
      from_list(<<<<"Z", 0>>>>, <<2, 0>>),
      from_list(<<<<"Y", 1>>, <<"X", 0>>>>, <<-2, 0>>),
      from_list(<<<<"Z", 0>>, <<"Z", 1>>>>, COne),
      from_list(<<<<"Y", 0>>>>, CZero),
      from_list(<<<<"X", 1>>>>, CI),
      from_list(<<>>, <<2, 0>>) }

\* the orders that are passed: the keys of trotter_dict, and one below and
\* one above them
OrdersPassed == 0..5

StepsPassed == 0..MaxSteps

InitTrotter == InitWith(TrotterTerms, {NoSum})

\* suzuki_trotter(trotter_order, trotter_steps)
SuzukiTrotter ==
    /\ pc = "init"
    /\ \E order \in OrdersPassed, steps \in StepsPassed :
        /\ pc' = "schedule"
        /\ trotter_order' = order
        /\ trotter_steps' = steps
        /\ exc' = suzuki_trotter_raises(order, steps)
        /\ rl' = IF suzuki_trotter_raises(order, steps) = "none"
                 THEN suzuki_trotter(order, steps)
                 ELSE <<>>
        /\ UNCHANGED <<ta, tb, tc, sa, sb, pw, rt1, rt2, rs1, rs2, rb1, rb2, nops, heap, before>>

\* trotterize(ta, b, trotter_order, trotter_steps)
Trotterize ==
    /\ pc = "init"
    /\ \E b \in TrotterTerms, order \in OrdersPassed, steps \in StepsPassed :
        LET result == trotterize(ta, b, order, steps)
        IN  /\ pc' = "trotterized"
            /\ tb' = b
            /\ trotter_order' = order
            /\ trotter_steps' = steps
            /\ exc' = result.exc
            /\ rl' = result.prog
            /\ UNCHANGED <<ta, tc, sa, sb, pw, rt1, rt2, rs1, rs2, rb1, rb2, nops, heap, before>>

NextTrotter == SuzukiTrotter \/ Trotterize

SpecTrotter == InitTrotter /\ [][NextTrotter]_vars

-----------------------------------------------------------------------------
(* Objects.  The heap holds the PauliTerm objects (the id of the            *)
(* OrderedDict _ops, and the coefficient), the OrderedDict objects and the  *)
(* list objects (lists of ids of PauliTerms); an id is an index.  A         *)
(* PauliSum is the id of its list: terms is its only field and is assigned  *)
(* once, in __init__.  A call gives [h, r]: the heap after it and the id    *)
(* (or ids) that it returned.  The objects that a call drops before it      *)
(* returns (the OrderedDict of the PauliTerm("I", 0) made in copy and in    *)
(* _multiply_factor, the lists of like_terms) are not kept in the heap.     *)

NewDict(h, ops) ==
    [h |-> [h EXCEPT !.dicts = Append(@, ops)], r |-> Len(h.dicts) + 1]

NewList(h, ids) ==
    [h |-> [h EXCEPT !.lists = Append(@, ids)], r |-> Len(h.lists) + 1]

NewTerm(h, d, coefficient) ==
    [h |-> [h EXCEPT !.terms = Append(@, [ops |-> d, coef |-> coefficient])],
     r |-> Len(h.terms) + 1]

\* a call that raised returns no object
Raised(h) == [h |-> h, r |-> 0]

\* the PauliTerm that object t holds, and the terms of PauliSum l
TermAt(h, t) == [ops |-> h.dicts[h.terms[t].ops], coef |-> h.terms[t].coef]
SumAt(h, l) == [i \in DOMAIN h.lists[l] |-> TermAt(h, h.lists[l][i])]

\* the value of Continue on the result of a call: the result is computed once,
\* before the statements that follow the call read it
Then(result, Continue(_)) == CHOOSE y \in {Continue(x) : x \in {result}} : TRUE

\* PauliTerm.__init__
ObjPauliTerm(h, op, index, coefficient) ==
    Then(NewDict(h, PauliTerm(op, index, coefficient).ops),
         LAMBDA ops : NewTerm(ops.h, ops.r, coefficient))

\* PauliTerm.copy: a new object, its _ops a copy.copy of the OrderedDict
ObjCopy(h, self) ==
    Then(NewDict(h, h.dicts[h.terms[self].ops]),
         LAMBDA ops : NewTerm(ops.h, ops.r, h.terms[self].coef))

\* term_with_coeff that patches the term it was given
ObjTermWithCoeffInPlace(h, term, coeff) ==
    [h |-> [h EXCEPT !.terms[term].coef = coeff], r |-> term]

\* isinstance(coeff, Number)
IsNumber(coeff) == coeff \in Int \X Int

\* term_with_coeff: coeff has to be a number; new_pauli = term.copy();
\* new_pauli.coefficient = coeff
ObjTermWithCoeff(h, term, coeff) ==
    IF ~IsNumber(coeff)
    THEN Raised(h)
    ELSE Then(ObjCopy(h, term),
              LAMBDA new_pauli :
                  [h |-> [new_pauli.h EXCEPT !.terms[new_pauli.r].coef = coeff],
                   r |-> new_pauli.r])

\* _multiply_factor: new_ops = self._ops.copy() is written to, new_term gets
\* new_ops and new_coeff
ObjMultiplyFactor(h, self, factor, index) ==
    LET product == multiply_factor(TermAt(h, self), factor, index)
    IN  Then(NewDict(h, h.dicts[h.terms[self].ops]),
             LAMBDA new_ops :
                 NewTerm([new_ops.h EXCEPT !.dicts[new_ops.r] = product.ops],
                         new_ops.r, product.coef))

RECURSIVE ObjMulFactors(_, _, _, _, _)
\* for index, op in term: new_term = new_term._multiply_factor(op, index);
\* __iter__ takes the qubits at once and reads self[i] at each step
ObjMulFactors(h, new_term, term, qubits, i) ==
    IF i > Len(qubits)
    THEN [h |-> h, r |-> new_term]
    ELSE LET op == GetItem(h.dicts[h.terms[term].ops], qubits[i])
         IN  Then(ObjMultiplyFactor(h, new_term, op, qubits[i]),
                  LAMBDA next : ObjMulFactors(next.h, next.r, term, qubits, i + 1))

\* PauliTerm.__mul__ with a term that is neither a number nor a PauliSum: it
\* is taken for a PauliTerm
ObjTermMul(h, self, term) ==
    IF term \notin DOMAIN h.terms
    THEN Raised(h)
    ELSE LET new_coeff == CMul(h.terms[self].coef, h.terms[term].coef)
         IN  Then(NewDict(h, h.dicts[h.terms[self].ops]), LAMBDA new_ops :
             Then(NewTerm(new_ops.h, new_ops.r, COne), LAMBDA new_term :
             Then(ObjMulFactors(new_term.h, new_term.r, term,
                                get_qubits(TermAt(h, term)), 1), LAMBDA done :
             ObjTermWithCoeff(done.h, done.r,
                              CMul(done.h.terms[done.r].coef, new_coeff)))))

\* PauliTerm.__mul__ with a number, and PauliTerm.__rmul__
ObjTermMulNumber(h, self, number) ==
    ObjTermWithCoeff(h, self, CMul(h.terms[self].coef, number))

\* PauliSum.__init__ on the list terms: every term has to be a PauliTerm;
\* self.terms = terms, or [0.0 * ID()]
ObjPauliSum(h, terms) ==
    IF \E i \in DOMAIN h.lists[terms] : h.lists[terms][i] \notin DOMAIN h.terms
    THEN Raised(h)
    ELSE IF Len(h.lists[terms]) = 0
    THEN Then(ObjPauliTerm(h, "I", 0, COne), LAMBDA id :
         Then(ObjTermMulNumber(id.h, id.r, CZero), LAMBDA zero :
         NewList(zero.h, <<zero.r>>)))
    ELSE [h |-> h, r |-> terms]

\* PauliSum([...]) on a list made for it
ObjPauliSumOf(h, ids) ==
    Then(NewList(h, ids), LAMBDA terms : ObjPauliSum(terms.h, terms.r))

RECURSIVE ObjSimplifyGroups(_, _, _, _, _)
\* the loop over like_terms.values(), terms the ids appended so far: a group
\* appends its first term itself, or a term_with_coeff of it, or nothing
ObjSimplifyGroups(h, pauli_sum, keys, k, terms) ==
    IF k > Len(keys)
    THEN [h |-> h, r |-> terms]
    ELSE LET term_list == SelectSeq(h.lists[pauli_sum],
                 LAMBDA t : operations_as_set(TermAt(h, t)) = keys[k])
             first_term == term_list[1]
             coeff == SumCoefs([i \in DOMAIN term_list |-> TermAt(h, term_list[i])], 1)
         IN  IF Len(term_list) = 1 /\ ~IsClose(h.terms[first_term].coef, CZero)
             THEN ObjSimplifyGroups(h, pauli_sum, keys, k + 1,
                                    Append(terms, first_term))
             ELSE IF ~IsClose(coeff, CZero)
                  THEN Then(ObjTermWithCoeff(h, term_list[1], coeff), LAMBDA summed :
                       ObjSimplifyGroups(summed.h, pauli_sum, keys, k + 1,
                                         Append(terms, summed.r)))
                  ELSE ObjSimplifyGroups(h, pauli_sum, keys, k + 1, terms)

\* simplify_pauli_sum / PauliSum.simplify
ObjSimplify(h, pauli_sum) ==
    Then(ObjSimplifyGroups(h, pauli_sum,
                           LikeKeys(SumAt(h, pauli_sum), 1, <<>>), 1, <<>>),
         LAMBDA done : ObjPauliSumOf(done.h, done.r))

RECURSIVE ObjCopies(_, _, _, _)
\* [term.copy() for term in terms]
ObjCopies(h, terms, i, copies) ==
    IF i > Len(terms)
    THEN [h |-> h, r |-> copies]
    ELSE Then(ObjCopy(h, terms[i]), LAMBDA new_term :
         ObjCopies(new_term.h, terms, i + 1, Append(copies, new_term.r)))

\* PauliSum.__add__ with what is neither a PauliTerm nor a number, taken for
\* a PauliSum: the copies of the terms of self in a
\* new list, which is extended with the terms of other
ObjSumAdd(h, self, other) ==
    IF other \notin DOMAIN h.lists
    THEN Raised(h)
    ELSE Then(ObjCopies(h, h.lists[self], 1, <<>>), LAMBDA copies :
         Then(NewList(copies.h, copies.r), LAMBDA new_terms :
         Then(ObjPauliSum([new_terms.h EXCEPT
                              !.lists[new_terms.r] = @ \o h.lists[other]],
                          new_terms.r), LAMBDA new_sum :
         ObjSimplify(new_sum.h, new_sum.r))))

\* PauliSum.__add__ with a PauliTerm: other = PauliSum([other])
ObjSumAddTerm(h, self, other) ==
    IF other \notin DOMAIN h.terms
    THEN Raised(h)
    ELSE Then(ObjPauliSumOf(h, <<other>>), LAMBDA other_sum :
         ObjSumAdd(other_sum.h, self, other_sum.r))

\* PauliTerm.__add__ with a PauliTerm
ObjTermAdd(h, self, other) ==
    Then(ObjPauliSumOf(h, <<self, other>>), LAMBDA new_sum :
         ObjSimplify(new_sum.h, new_sum.r))

\* PauliTerm.__add__ with a PauliSum: other + self
ObjTermAddSum(h, self, other) == ObjSumAddTerm(h, other, self)

RECURSIVE ObjProductTerms(_, _, _, _, _, _)
\* [lterm * rterm for lterm, rterm in product(terms, other_terms)]
ObjProductTerms(h, terms, other_terms, i, j, new_terms) ==
    IF i > Len(terms)
    THEN [h |-> h, r |-> new_terms]
    ELSE IF j > Len(other_terms)
         THEN ObjProductTerms(h, terms, other_terms, i + 1, 1, new_terms)
         ELSE Then(ObjTermMul(h, terms[i], other_terms[j]), LAMBDA new_term :
              ObjProductTerms(new_term.h, terms, other_terms, i, j + 1,
                              Append(new_terms, new_term.r)))

\* PauliSum.__mul__ once other_terms is known
ObjSumMulTerms(h, self, other_terms) ==
    Then(ObjProductTerms(h, h.lists[self], other_terms, 1, 1, <<>>), LAMBDA new_terms :
    Then(ObjPauliSumOf(new_terms.h, new_terms.r), LAMBDA new_sum :
    ObjSimplify(new_sum.h, new_sum.r)))

\* PauliSum.__mul__ with a PauliSum: other_terms = other.terms
ObjSumMul(h, self, other) ==
    IF other \notin DOMAIN h.lists
    THEN Raised(h)
    ELSE ObjSumMulTerms(h, self, h.lists[other])

\* PauliSum.__mul__ with a PauliTerm: other_terms = [other]
ObjSumMulTerm(h, self, other) ==
    IF other \notin DOMAIN h.terms
    THEN Raised(h)
    ELSE ObjSumMulTerms(h, self, <<other>>)

\* PauliTerm.__mul__ with a PauliSum: (PauliSum([self]) * term).simplify()
ObjTermMulSum(h, self, term) ==
    IF term \notin DOMAIN h.lists
    THEN Raised(h)
    ELSE Then(ObjPauliSumOf(h, <<self>>), LAMBDA self_sum :
         Then(ObjSumMul(self_sum.h, self_sum.r, term), LAMBDA product :
         ObjSimplify(product.h, product.r)))

RECURSIVE ObjScale(_, _, _, _)
\* for term in new_terms: term.coefficient *= other
ObjScale(h, new_terms, i, other) ==
    IF i > Len(new_terms)
    THEN h
    ELSE Then([h EXCEPT !.terms[new_terms[i]].coef = CMul(@, other)], LAMBDA scaled :
         ObjScale(scaled, new_terms, i + 1, other))

\* PauliSum.__rmul__: the copies of the terms are scaled
ObjSumRMul(h, self, other) ==
    Then(ObjCopies(h, h.lists[self], 1, <<>>), LAMBDA new_terms :
    Then(ObjScale(new_terms.h, new_terms.r, 1, other), LAMBDA scaled :
    Then(ObjPauliSumOf(scaled, new_terms.r), LAMBDA new_sum :
    ObjSimplify(new_sum.h, new_sum.r))))

\* PauliTerm.__sub__ with a PauliTerm: self + -1. * other
ObjTermSub(h, self, other) ==
    Then(ObjTermMulNumber(h, other, CNegOne), LAMBDA negated :
         ObjTermAdd(negated.h, self, negated.r))

\* PauliSum.__sub__ with a PauliSum: self + -1. * other
ObjSumSub(h, self, other) ==
    Then(ObjSumRMul(h, other, CNegOne), LAMBDA negated :
         ObjSumAdd(negated.h, self, negated.r))

RECURSIVE ObjPowLoop(_, _, _, _)
\* for _ in range(power): result *= self
ObjPowLoop(h, result, self, k) ==
    IF k = 0
    THEN [h |-> h, r |-> result]
    ELSE Then(ObjTermMul(h, result, self), LAMBDA product :
         ObjPowLoop(product.h, product.r, self, k - 1))

\* PauliTerm.__pow__, for an integer power >= 0
ObjTermPow(h, self, power) ==
    IF Len(get_qubits(TermAt(h, self))) = 0
    THEN ObjTermWithCoeff(h, self, COne)
    ELSE Then(ObjPauliTerm(h, "I", 0, COne), LAMBDA result :
         ObjPowLoop(result.h, result.r, self, power))

RECURSIVE ObjMulByTerms(_, _, _, _)
\* for term in terms: result *= term
ObjMulByTerms(h, result, terms, i) ==
    IF i > Len(terms)
    THEN [h |-> h, r |-> result]
    ELSE Then(ObjSumMulTerm(h, result, terms[i]), LAMBDA product :
         ObjMulByTerms(product.h, product.r, terms, i + 1))

RECURSIVE ObjWithCoeffOne(_, _, _, _)
\* [term_with_coeff(term, 1) for term in self.terms]
ObjWithCoeffOne(h, terms, i, new_terms) ==
    IF i > Len(terms)
    THEN [h |-> h, r |-> new_terms]
    ELSE Then(ObjTermWithCoeff(h, terms[i], COne), LAMBDA new_term :
         ObjWithCoeffOne(new_term.h, terms, i + 1, Append(new_terms, new_term.r)))

RECURSIVE ObjIdentities(_, _, _, _)
\* the objects of the terms PauliTerm("I", qubit_id) that result is multiplied
\* by, identities their values
ObjIdentities(h, identities, i, new_terms) ==
    IF i > Len(identities)
    THEN [h |-> h, r |-> new_terms]
    ELSE Then(NewDict(h, identities[i].ops), LAMBDA ops :
         Then(NewTerm(ops.h, ops.r, identities[i].coef), LAMBDA new_term :
         ObjIdentities(new_term.h, identities, i + 1, Append(new_terms, new_term.r))))

RECURSIVE ObjSumPowLoop(_, _, _, _)
\* for _ in range(power): result *= self
ObjSumPowLoop(h, result, self, k) ==
    IF k = 0
    THEN [h |-> h, r |-> result]
    ELSE Then(ObjSumMul(h, result, self), LAMBDA product :
         ObjSumPowLoop(product.h, product.r, self, k - 1))

\* PauliSum.__pow__, for an integer power >= 0
ObjSumPow(h, self, power) ==
    Then(ObjPauliTerm(h, "I", 0, COne), LAMBDA id :
    Then(ObjPauliSumOf(id.h, <<id.r>>), LAMBDA result :
    Then(IF SumQubits(SumAt(h, self)) = {}
         THEN ObjWithCoeffOne(result.h, h.lists[self], 1, <<>>)
         ELSE ObjIdentities(result.h, QubitIdentities(SumAt(h, self), 1), 1, <<>>),
         LAMBDA terms :
    Then(ObjMulByTerms(terms.h, result.r, terms.r, 1), LAMBDA start :
    ObjSumPowLoop(start.h, start.r, self, power)))))

-----------------------------------------------------------------------------
(* The algebra on objects: three PauliTerm objects and two PauliSums that   *)
(* hold some of them, one of them twice; a call takes any of them, also the *)
(* same object for both operands.  rl holds the arguments of the call, rt1  *)
(* or rs1 the term or the terms of the sum returned.                        *)

ObjValues ==
    { from_list(<<<<"X", 0>>>>, COne),
      from_list(<<<<"X", 0>>>>, CNegOne),
      from_list(<<<<"Z", 0>>, <<"Y", 1>>>>, <<2, 0>>),
      from_list(<<<<"Y", 1>>>>, CZero),
      from_list(<<>>, <<2, 0>>) }

ObjLastValues == {from_list(<<<<"X", 0>>>>, COne), from_list(<<>>, <<2, 0>>)}

ObjNumbers == {CZero, CNegOne, <<2, 0>>}

\* the powers of a PauliSum: none, one and two turns of the loop
ObjSumPowers == {0, 1, 2}

\* the heap of the PauliTerms of the values given, each with an OrderedDict
\* of its own, and of the lists given
HeapOf(values, lists) ==
    [terms |-> [i \in DOMAIN values |-> [ops |-> i, coef |-> values[i].coef]],
     dicts |-> [i \in DOMAIN values |-> values[i].ops],
     lists |-> lists]

ObjHeaps ==
    { HeapOf(<<v1, v2, v3>>, <<l1, l2>>) :
        v1 \in ObjValues, v2 \in ObjValues, v3 \in ObjLastValues,
        l1 \in {<<1>>, <<2>>, <<1, 2>>, <<2, 1>>, <<1, 1>>, <<2, 2>>},
        l2 \in {<<3>>, <<1, 3>>, <<3, 3>>} }

InitObj ==
    /\ InitRegisters({NoTerm}, {NoSum})
    /\ before \in ObjHeaps
    /\ heap = before

TermIds == DOMAIN before.terms
SumIds == DOMAIN before.lists

\* the call op(args) returned the PauliTerm result.r
ReturnedTerm(op, args, result) ==
    /\ pc' = op
    /\ rl' = args
    /\ heap' = result.h
    /\ rt1' = TermAt(result.h, result.r)
    /\ UNCHANGED <<ta, tb, tc, sa, sb, pw, rt2, rs1, rs2, rb1, rb2, nops, exc,
                   trotter_order, trotter_steps, before>>

\* the call op(args) returned the PauliSum result.r
ReturnedSum(op, args, result) ==
    /\ pc' = op
    /\ rl' = args
    /\ heap' = result.h
    /\ rs1' = SumAt(result.h, result.r)
    /\ UNCHANGED <<ta, tb, tc, sa, sb, pw, rt1, rt2, rs2, rb1, rb2, nops, exc,
                   trotter_order, trotter_steps, before>>

ObjMulTerms ==
    /\ pc = "init"
    /\ \E a \in TermIds, b \in TermIds :
        ReturnedTerm("Term*Term", <<a, b>>, ObjTermMul(before, a, b))

ObjMulNumber ==
    /\ pc = "init"
    /\ \E a \in TermIds, x \in ObjNumbers :
        ReturnedTerm("Term*number", <<a, x>>, ObjTermMulNumber(before, a, x))

ObjMulTermSum ==
    /\ pc = "init"
    /\ \E a \in TermIds, s \in SumIds :
        ReturnedSum("Term*Sum", <<a, s>>, ObjTermMulSum(before, a, s))

ObjMulSums ==
    /\ pc = "init"
    /\ \E s \in SumIds, t \in SumIds :
        ReturnedSum("Sum*Sum", <<s, t>>, ObjSumMul(before, s, t))

ObjRMulSum ==
    /\ pc = "init"
    /\ \E s \in SumIds, x \in ObjNumbers :
        ReturnedSum("number*Sum", <<s, x>>, ObjSumRMul(before, s, x))

ObjAddTerms ==
    /\ pc = "init"
    /\ \E a \in TermIds, b \in TermIds :
        ReturnedSum("Term+Term", <<a, b>>, ObjTermAdd(before, a, b))

ObjAddTermSum ==
    /\ pc = "init"
    /\ \E a \in TermIds, s \in SumIds :
        ReturnedSum("Term+Sum", <<a, s>>, ObjTermAddSum(before, a, s))

ObjAddSums ==
    /\ pc = "init"
    /\ \E s \in SumIds, t \in SumIds :
        ReturnedSum("Sum+Sum", <<s, t>>, ObjSumAdd(before, s, t))

ObjSubTerms ==
    /\ pc = "init"
    /\ \E a \in TermIds, b \in TermIds :
        ReturnedSum("Term-Term", <<a, b>>, ObjTermSub(before, a, b))

ObjSubSums ==
    /\ pc = "init"
    /\ \E s \in SumIds, t \in SumIds :
        ReturnedSum("Sum-Sum", <<s, t>>, ObjSumSub(before, s, t))

ObjPowTerm ==
    /\ pc = "init"
    /\ \E a \in TermIds, power \in 0..MaxPower :
        ReturnedTerm("Term**n", <<a, power>>, ObjTermPow(before, a, power))

ObjPowSum ==
    /\ pc = "init"
    /\ \E s \in SumIds, power \in ObjSumPowers :
        ReturnedSum("Sum**n", <<s, power>>, ObjSumPow(before, s, power))

ObjSimplifySum ==
    /\ pc = "init"
    /\ \E s \in SumIds :
        ReturnedSum("simplify", <<s>>, ObjSimplify(before, s))

NextObj ==
    \/ ObjMulTerms \/ ObjMulNumber \/ ObjMulTermSum \/ ObjMulSums \/ ObjRMulSum
    \/ ObjAddTerms \/ ObjAddTermSum \/ ObjAddSums \/ ObjSubTerms \/ ObjSubSums
    \/ ObjPowTerm \/ ObjPowSum \/ ObjSimplifySum

SpecObj == InitObj /\ [][NextObj]_vars

-----------------------------------------------------------------------------
(* Circuit synthesis on objects.  A PauliTerm object is [ops, coef, tiny]:  *)
(* its coefficient is coef plus an imaginary part of tiny * 1e-9, which is  *)
(* 0 or within the tolerance of np.isclose to 0 (1e-8), so that every test  *)
(* of np.isclose in the code sees coef alone: the coefficients are at most  *)
(* 2 in size and the Trotter weights below 2.  heap holds the objects after *)
(* the call and before the objects before it; the PauliSum that is          *)
(* exponentiated holds them all, in their order.                            *)

\* the PauliTerm that the tests of np.isclose see
Seen(object) == [ops |-> object.ops, coef |-> object.coef]

\* exponential_map that reads the real part and leaves the term as it is
exponential_map_objectsReadOnly(objects, t) ==
    IF exponential_map_raises(FloatTerm(Seen(objects[t])))
    THEN [exc |-> "TypeError", objects |-> objects]
    ELSE [exc |-> "none", objects |-> objects]

\* exponential_map(term) on object t: after the test of the imaginary part,
\* term.coefficient = term.coefficient.real
exponential_map_objects(objects, t) ==
    IF exponential_map_raises(FloatTerm(Seen(objects[t])))
    THEN [exc |-> "TypeError", objects |-> objects]
    ELSE [exc |-> "none",
          objects |-> [objects EXCEPT ![t].coef = <<@[1], 0>>, ![t].tiny = 0]]

RECURSIVE MapAll(_, _)
\* fns = [exponential_map(term) for term in pauli_sum], from term t on
MapAll(objects, t) ==
    IF t > Len(objects)
    THEN [exc |-> "none", objects |-> objects]
    ELSE LET mapped == exponential_map_objects(objects, t)
         IN  IF mapped.exc # "none"
             THEN mapped
             ELSE MapAll(mapped.objects, t + 1)

\* exponentiate_commuting_pauli_sum(pauli_sum) on the PauliSum of the objects
exponentiate_commuting_pauli_sum(objects) == MapAll(objects, 1)

\* trotterize on the objects a and b: the commuting shortcut passes them to
\* exponential_map, the slices are new terms coeff * first_pauli_term and
\* coeff * second_pauli_term
trotterize_objects(objects, a, b, order, steps) ==
    LET first_pauli_term == Seen(objects[a])
        second_pauli_term == Seen(objects[b])
        commutator == TermAdd(TermMul(first_pauli_term, second_pauli_term),
                              TermMul(TermRMul(second_pauli_term, CNegOne),
                                      first_pauli_term))
        one == exponential_map_objects(objects, a)
    IN  IF ~(1 <= order /\ order < 5)
        THEN [exc |-> "ValueError", objects |-> objects]
        ELSE IF is_zero_sum(commutator)
        THEN IF one.exc # "none"
             THEN one
             ELSE exponential_map_objects(one.objects, b)
        ELSE [exc |-> trotterize(first_pauli_term, second_pauli_term, order, steps).exc,
              objects |-> objects]

SynthLists ==
    { <<>>, <<<<"X", 0>>>>, <<<<"Z", 0>>>>, <<<<"X", 0>>, <<"Y", 1>>>> }

SynthCoefs == {COne, <<-2, 0>>, CZero, CI}

SynthObjects ==
    { [ops |-> from_list(l, c).ops, coef |-> c, tiny |-> e] :
        l \in SynthLists, c \in SynthCoefs, e \in {0, 1} }

SynthOrders == {0, 1, 2}
SynthSteps == {0, 1}

InitSynth ==
    /\ InitRegisters({NoTerm}, {NoSum})
    /\ before \in {<<a, b>> : a \in SynthObjects, b \in SynthObjects}
    /\ heap = before

\* the call op(args) ended with result
Synthesized(op, args, result) ==
    /\ pc' = op
    /\ rl' = args
    /\ exc' = result.exc
    /\ heap' = result.objects
    /\ UNCHANGED <<ta, tb, tc, sa, sb, pw, rt1, rt2, rs1, rs2, rb1, rb2, nops,
                   trotter_order, trotter_steps, before>>

\* exponential_map(term)
SynthExponentialMap ==
    /\ pc = "init"
    /\ \E t \in DOMAIN before :
        Synthesized("exponential_map", <<t>>, exponential_map_objects(before, t))

\* exponentiate(term): exponential_map(term)(1.0)
SynthExponentiate ==
    /\ pc = "init"
    /\ \E t \in DOMAIN before :
        Synthesized("exponentiate", <<t>>, exponential_map_objects(before, t))

\* exponentiate_commuting_pauli_sum(PauliSum of the objects)
SynthCommutingSum ==
    /\ pc = "init"
    /\ Synthesized("exponentiate_commuting_pauli_sum", <<>>,
                   exponentiate_commuting_pauli_sum(before))

\* trotterize(a, b, order, steps)
SynthTrotterize ==
    /\ pc = "init"
    /\ \E a \in DOMAIN before, b \in DOMAIN before,
          order \in SynthOrders, steps \in SynthSteps :
        Synthesized("trotterize", <<a, b, order, steps>>,
                    trotterize_objects(before, a, b, order, steps))

NextSynth ==
    SynthExponentialMap \/ SynthExponentiate \/ SynthCommutingSum \/ SynthTrotterize

SpecSynth == InitSynth /\ [][NextSynth]_vars

-----------------------------------------------------------------------------
(* compact_str and from_compact_str on characters.  A string is a sequence  *)
(* of characters.  Coefficients are complex numbers of two integers, which  *)
(* str() writes without a fraction: (1+0j), (2-1j), 1j, -2j, 0j.            *)

RECURSIVE NatStr(_)
\* str() of a natural number
NatStr(n) ==
    IF n < 10 THEN <<Digits[n + 1]>> ELSE NatStr(n \div 10) \o <<Digits[(n % 10) + 1]>>

\* str() of an integer
IntStr(n) == IF n < 0 THEN <<"-">> \o NatStr(-n) ELSE NatStr(n)

\* str() of a complex number: without parentheses when the real part is 0
CoefStr(c) ==
    IF c[1] = 0
    THEN IntStr(c[2]) \o <<"j">>
    ELSE <<"(">> \o IntStr(c[1])
             \o (IF c[2] < 0 THEN <<"-">> ELSE <<"+">>) \o NatStr(Abs(c[2]))
             \o <<"j", ")">>

RECURSIVE IdStr(_, _)
\* PauliTerm.id(sort_ops=False) from item k on: operator, then qubit
IdStr(ops, k) ==
    IF k > Len(ops)
    THEN <<>>
    ELSE <<ops[k][2]>> \o NatStr(ops[k][1]) \o IdStr(ops, k + 1)

\* PauliTerm.compact_str: f'{self.coefficient}*{self.id(sort_ops=False)}'
TermCompactStr(term) ==
    CoefStr(term.coef) \o <<"*">>
        \o (IF Len(term.ops) = 0 THEN <<"I">> ELSE IdStr(term.ops, 1))

RECURSIVE SumCompactStrFrom(_, _)
\* PauliSum.compact_str: "+".join(term.compact_str() for term in self.terms)
SumCompactStrFrom(terms, k) ==
    IF k = Len(terms)
    THEN TermCompactStr(terms[k])
    ELSE TermCompactStr(terms[k]) \o <<"+">> \o SumCompactStrFrom(terms, k + 1)

SumCompactStr(pauli_sum) == SumCompactStrFrom(pauli_sum, 1)

\* the places where a text splits when parentheses are not looked at
SplitPlacesAnywhere(str, sep) == {k \in DOMAIN str : str[k] = sep}

\* the lookahead (?![^(]*\)) fails at k: a ")" follows with no "(" before it
BeforeClosing(str, k) ==
    \E j \in (k + 1)..Len(str) :
        /\ str[j] = ")"
        /\ \A m \in (k + 1)..(j - 1) : str[m] # "("

\* the places where re.split(sep + r'(?![^(]*\))', str) splits
SplitPlaces(str, sep) ==
    {k \in DOMAIN str : str[k] = sep /\ ~BeforeClosing(str, k)}

RECURSIVE SplitAt(_, _, _)
\* the pieces of str from character from on, split at the places given
SplitAt(str, places, from) ==
    IF \E k \in places : k >= from
    THEN LET k == CHOOSE p \in places : p >= from /\ \A q \in places : q >= from => p <= q
         IN  <<SubSeq(str, from, k - 1)>> \o SplitAt(str, places, k + 1)
    ELSE <<SubSeq(str, from, Len(str))>>

IsNat(str) == Len(str) > 0 /\ \A k \in DOMAIN str : \E d \in DOMAIN Digits : Digits[d] = str[k]

RECURSIVE NatVal(_)
NatVal(str) ==
    IF Len(str) = 0
    THEN 0
    ELSE NatVal(SubSeq(str, 1, Len(str) - 1)) * 10 + DigitValue(str[Len(str)])

\* an integer as float() and complex() read it: digits after an optional sign
IsInt(str) == IsNat(str) \/ (Len(str) > 1 /\ str[1] \in {"-", "+"} /\ IsNat(Tail(str)))

IntVal(str) ==
    IF str[1] = "-" THEN -NatVal(Tail(str))
    ELSE IF str[1] = "+" THEN NatVal(Tail(str))
    ELSE NatVal(str)

\* float(str_coef), for numbers without exponent whose fraction, if there is
\* one, is zeros ("2", "-1", "1.0")
ParseFloat(str) ==
    LET dots == {k \in DOMAIN str : str[k] = "."}
        dot == CHOOSE k \in dots : TRUE
        fraction == SubSeq(str, dot + 1, Len(str))
    IN  IF IsInt(str)
        THEN [ok |-> TRUE, val |-> <<IntVal(str), 0>>]
        ELSE IF /\ Cardinality(dots) = 1
                /\ IsInt(SubSeq(str, 1, dot - 1))
                /\ \A k \in DOMAIN fraction : fraction[k] = "0"
        THEN [ok |-> TRUE, val |-> <<IntVal(SubSeq(str, 1, dot - 1)), 0>>]
        ELSE [ok |-> FALSE, val |-> CZero]

\* complex(str_coef): a real number, an imaginary number, or both, the
\* whole in parentheses or not
ParseComplex(str_coef) ==
    LET inner == IF Len(str_coef) >= 2 /\ str_coef[1] = "(" /\ str_coef[Len(str_coef)] = ")"
                 THEN SubSeq(str_coef, 2, Len(str_coef) - 1)
                 ELSE str_coef
        number == SubSeq(inner, 1, Len(inner) - 1)
        signs == {k \in 2..(Len(number) - 1) :
                     /\ number[k] \in {"+", "-"}
                     /\ IsInt(SubSeq(number, 1, k - 1))
                     /\ IsNat(SubSeq(number, k + 1, Len(number)))}
        k == CHOOSE s \in signs : TRUE
    IN  IF Len(inner) = 0
        THEN [ok |-> FALSE, val |-> CZero]
        ELSE IF inner[Len(inner)] # "j"
        THEN ParseFloat(inner)
        ELSE IF IsInt(number)
        THEN [ok |-> TRUE, val |-> <<0, IntVal(number)>>]
        ELSE IF signs # {}
        THEN [ok |-> TRUE,
              val |-> <<IntVal(SubSeq(number, 1, k - 1)),
                        IntVal(SubSeq(number, k, Len(number)))>>]
        ELSE [ok |-> FALSE, val |-> CZero]

\* PauliTerm.from_compact_str on characters: [exc, term]
TermFromString(str_pauli_term) ==
    LET stars == SplitPlaces(str_pauli_term, "*")
        first == CHOOSE k \in stars : \A q \in stars : k <= q
        str_coef == SubSeq(str_pauli_term, 1, first - 1)
        str_op == SubSeq(str_pauli_term, first + 1, Len(str_pauli_term))
        coef == IF ParseFloat(str_coef).ok THEN ParseFloat(str_coef)
                ELSE ParseComplex(str_coef)
        factors == SelectSeq(str_op, LAMBDA ch : ch # "*")
    IN  IF stars = {} \/ ~coef.ok
        THEN [exc |-> "ValueError", term |-> NoTerm]
        ELSE IF str_op = <<"I">>
        THEN [exc |-> "none", term |-> TermMulNumber(sI, coef.val)]
        ELSE IF ~MatchesOperator(factors)
        THEN [exc |-> "ValueError", term |-> NoTerm]
        ELSE [exc |-> "none",
              term |-> TermFromCompactStr([coef |-> coef.val, op |-> factors])]

\* PauliSum.from_compact_str on characters: [exc, sum]
SumFromString(str_pauli_sum) ==
    LET str_terms == SplitAt(str_pauli_sum, SplitPlaces(str_pauli_sum, "+"), 1)
        terms == [k \in DOMAIN str_terms |-> TermFromString(str_terms[k])]
    IN  IF \E k \in DOMAIN terms : terms[k].exc # "none"
        THEN [exc |-> "ValueError", sum |-> NoSum]
        ELSE [exc |-> "none",
              sum |-> simplify_pauli_sum(PauliSum([k \in DOMAIN terms |-> terms[k].term]))]

-----------------------------------------------------------------------------
(* SpecStr: a sum is written with compact_str and read back, and texts of   *)
(* terms are read with PauliTerm.from_compact_str.                          *)

StrTerms ==
    {from_list(l, c) :
        l \in {<<>>, <<<<"X", 0>>>>, <<<<"Y", 1>>, <<"X", 0>>>>},
        c \in {COne, CZero, <<0, -2>>, <<2, -1>>}}

StrSums == ListsUpTo(StrTerms, 2) \ {<<>>}

StrTexts ==
    {<<"1", ".", "0", "*", "X", "0", "X", "0">>,
     <<"1", ".", "0", "*", "X", "0", "Z", "0">>,
     <<"1", ".", "0", "*", "X", "0", "Z", "1">>,
     <<"(", "2", "-", "1", "j", ")", "*", "Y", "1", "*", "X", "0">>,
     <<"-", "2", "j", "*", "I">>,
     <<"2", "*", "X", "0", "I">>,
     <<"X", "0">>,
     <<"2", "*", "X">>}

InitStr == InitWith({NoTerm}, StrSums)

\* PauliSum.from_compact_str(s.compact_str()) and its comparison with s
SumRoundTrip ==
    /\ pc = "init"
    /\ LET result == SumFromString(SumCompactStr(sa))
       IN  /\ pc' = "sum round trip"
           /\ rl' = SumCompactStr(sa)
           /\ exc' = result.exc
           /\ rs1' = result.sum
           /\ rb1' = (result.exc = "none" /\ SumEq(result.sum, sa))
    /\ UNCHANGED <<ta, tb, tc, sa, sb, pw, rt1, rt2, rs2, rb2, nops, trotter_order, trotter_steps, heap, before>>

\* PauliTerm.from_compact_str(text)
TermFromText ==
    /\ pc = "init"
    /\ \E text \in StrTexts :
        /\ pc' = "term from text"
        /\ rl' = text
        /\ exc' = TermFromString(text).exc
        /\ rt1' = TermFromString(text).term
    /\ UNCHANGED <<ta, tb, tc, sa, sb, pw, rt2, rs1, rs2, rb1, rb2, nops, trotter_order, trotter_steps, heap, before>>

NextStr == SumRoundTrip \/ TermFromText

SpecStr == InitStr /\ [][NextStr]_vars

-----------------------------------------------------------------------------
(* The calls that validate their arguments: [exc, term]                     *)

\* _valid_qubit, for integer indices
valid_qubit(index) == index \in Nat

\* PauliTerm.__init__ with its two tests
PauliTermInit(op, index, coefficient) ==
    IF op \notin PAULI_OPS
    THEN [exc |-> "ValueError", term |-> NoTerm]
    ELSE IF op # "I" /\ ~valid_qubit(index)
    THEN [exc |-> "ValueError", term |-> NoTerm]
    ELSE [exc |-> "none", term |-> PauliTerm(op, index, coefficient)]

\* PauliTerm.from_list with its assertions and its test of the indices
FromList(terms_list, coefficient) ==
    IF \E i \in DOMAIN terms_list : terms_list[i][1] \notin PAULI_OPS
    THEN [exc |-> "AssertionError", term |-> NoTerm]
    ELSE IF \E i \in DOMAIN terms_list : ~valid_qubit(terms_list[i][2])
    THEN [exc |-> "AssertionError", term |-> NoTerm]
    ELSE IF Cardinality({terms_list[i][2] : i \in DOMAIN terms_list}) # Len(terms_list)
    THEN [exc |-> "ValueError", term |-> NoTerm]
    ELSE [exc |-> "none", term |-> from_list(terms_list, coefficient)]

\* PauliTerm.__pow__ with its test of the power, for integer powers
TermPowChecked(t, power) ==
    IF power < 0
    THEN [exc |-> "ValueError", term |-> NoTerm]
    ELSE [exc |-> "none", term |-> TermPow(t, power)]

-----------------------------------------------------------------------------
(* SpecSession: a sequence of at most MaxOps calls that make a PauliTerm,   *)
(* each from the term the call before it returned.  ta is the latest term,  *)
(* tb and tc are the operands of the latest product.                        *)

SessionCoefs == {COne, CI, <<2, 0>>, CZero}

SessionOps == PAULI_OPS \cup {"W"}

SessionIndices == -1..MaxQubit

SessionLists ==
    {<<>>,
     <<<<"X", 0>>>>,
     <<<<"I", 0>>, <<"Z", 1>>>>,
     <<<<"Y", 1>>, <<"X", 0>>>>,
     <<<<"X", 0>>, <<"Z", 0>>>>,
     <<<<"I", 1>>, <<"I", 1>>>>}

SessionTerms ==
    {from_list(l, c) :
        l \in {<<<<"X", 0>>>>, <<<<"Z", 0>>>>, <<<<"X", 0>>, <<"Y", 1>>>>},
        c \in {COne, CI}}

InitSession == InitWith({ID}, {NoSum})

\* what a call leaves: the term it returned in ta, or ta as it was when the
\* call raised
Called(op, left, right, result) ==
    /\ nops < MaxOps
    /\ Bounded(<<result.term>>)
    /\ pc' = op
    /\ exc' = result.exc
    /\ ta' = IF result.exc = "none" THEN result.term ELSE ta
    /\ tb' = left
    /\ tc' = right
    /\ nops' = nops + 1
    /\ UNCHANGED <<sa, sb, pw, rt1, rt2, rs1, rs2, rb1, rb2, rl, trotter_order, trotter_steps, heap, before>>

SessionConstructor ==
    \E op \in SessionOps, index \in SessionIndices, c \in SessionCoefs :
        Called("constructor", NoTerm, NoTerm, PauliTermInit(op, index, c))

SessionFromList ==
    \E l \in SessionLists, c \in SessionCoefs :
        Called("from_list", NoTerm, NoTerm, FromList(l, c))

SessionFromCompactStr ==
    \E text \in StrTexts :
        Called("from_compact_str", NoTerm, NoTerm, TermFromString(text))

\* ta * b and b * ta, b one of the terms given or ta itself
SessionMul ==
    \E b \in SessionTerms \cup {ta} :
        \E pair \in {<<ta, b>>, <<b, ta>>} :
            Called("Term*Term", pair[1], pair[2],
                   [exc |-> "none", term |-> TermMul(pair[1], pair[2])])

SessionMulNumber ==
    \E x \in SessionCoefs :
        Called("Term*number", NoTerm, NoTerm,
               [exc |-> "none", term |-> TermMulNumber(ta, x)])

SessionPow ==
    \E power \in -1..MaxPower :
        Called("power", NoTerm, NoTerm, TermPowChecked(ta, power))

SessionWithCoeff ==
    \E x \in SessionCoefs :
        Called("term_with_coeff", NoTerm, NoTerm,
               [exc |-> "none", term |-> term_with_coeff(ta, x)])

NextSession ==
    \/ SessionConstructor
    \/ SessionFromList
    \/ SessionFromCompactStr
    \/ SessionMul
    \/ SessionMulNumber
    \/ SessionPow
    \/ SessionWithCoeff

SpecSession == InitSession /\ [][NextSession]_vars

-----------------------------------------------------------------------------
(* SpecHash: __hash__ and __eq__ on coefficients near each other.  The      *)
(* coefficients of this specification are fixed-point numbers: a pair of    *)
(* integers <<re, im>> that count tenths of 1/HASH_PRECISION (1e-7).        *)

\* the hash parts with ten times the precision: the tenths themselves
RoundTenthsKept(n, d) == n

\* round(n / d) as Python rounds: to the nearest integer, a half to the even
RoundHalfEven(n, d) ==
    LET q == n \div d
        r == n % d
    IN  IF 2 * r < d THEN q
        ELSE IF 2 * r > d THEN q + 1
        ELSE IF q % 2 = 0 THEN q
        ELSE q + 1

\* round(self.coefficient.real * HASH_PRECISION), same for imag, and the
\* operations: the tuple that __hash__ hashes
FixedHash(t) ==
    <<RoundHalfEven(t.coef[1], 10), RoundHalfEven(t.coef[2], 10), operations_as_set(t)>>

\* bounds of the modulus of v that need no square root; both are the modulus
\* when a part of v is 0
ModulusLow(v) == IF Abs(v[1]) > Abs(v[2]) THEN Abs(v[1]) ELSE Abs(v[2])

ModulusHigh(v) == Abs(v[1]) + Abs(v[2])

\* np.isclose(a, b): abs(a - b) <= atol + rtol * abs(b) with atol = 1e-8 (a
\* tenth of the unit) and rtol = 1e-5, that is abs(a - b) * 1e5 <= 1e4 +
\* abs(b), written with an integer division; for the pairs that
\* IsCloseDecided admits
IsCloseFixed(a, b) ==
    ModulusHigh(<<a[1] - b[1], a[2] - b[2]>>) <= (10000 + ModulusLow(b)) \div 100000

\* the pairs whose comparison the bounds of the modulus decide
IsCloseDecided(a, b) ==
    \/ IsCloseFixed(a, b)
    \/ ModulusLow(<<a[1] - b[1], a[2] - b[2]>>) > (10000 + ModulusHigh(b)) \div 100000

\* PauliTerm.__eq__ with a PauliTerm
FixedEq(self, other) ==
    /\ operations_as_set(self) = operations_as_set(other)
    /\ IsCloseFixed(self.coef, other.coef)

\* set([a]) == set([b]): the element is found by its hash, then compared
FixedSameSet(a, b) == FixedHash(a) = FixedHash(b) /\ FixedEq(a, b)

HashParts == {0, 5, 14, 16, -16, 25, 100005, 100006, 1000015}

HashTerms ==
    {from_list(l, <<re, im>>) :
        l \in {<<<<"X", 0>>>>, <<<<"X", 0>>, <<"Z", 1>>>>},
        re \in HashParts, im \in HashParts}

InitHash == InitWith(HashTerms, {NoSum})

\* hash(a), hash(b), a == b and PauliSum([a]) == PauliSum([b])
HashAndCompare ==
    /\ pc = "init"
    /\ \E b \in HashTerms :
        /\ IsCloseDecided(ta.coef, b.coef)
        /\ pc' = "hash"
        /\ tb' = b
        /\ rl' = <<FixedHash(ta), FixedHash(b)>>
        /\ rb1' = FixedEq(ta, b)
        /\ rb2' = FixedSameSet(ta, b)
    /\ UNCHANGED <<ta, tc, sa, sb, pw, rt1, rt2, rs1, rs2, nops, exc, trotter_order, trotter_steps, heap, before>>

NextHash == HashAndCompare

SpecHash == InitHash /\ [][NextHash]_vars

-----------------------------------------------------------------------------
(* SpecPow: the power of a term and the power of the sum of that term       *)

InitPow == InitWith(Terms, {NoSum})

\* PauliSum([t]) ** n, t ** n and their comparison
PowBoth ==
    /\ pc = "init"
    /\ \E n \in 0..MaxPower :
        /\ pc' = "powers"
        /\ pw' = n
        /\ rs1' = SumPow(PauliSum(<<ta>>), n)
        /\ rt1' = TermPow(ta, n)
        /\ rb1' = SumEqTerm(SumPow(PauliSum(<<ta>>), n), TermPow(ta, n))
    /\ UNCHANGED <<ta, tb, tc, sa, sb, rt2, rs2, rb2, nops, rl, exc, trotter_order, trotter_steps, heap, before>>

NextPow == PowBoth

SpecPow == InitPow /\ [][NextPow]_vars

-----------------------------------------------------------------------------
(* Claims on the term algebra *)

\* the phase of one qubit on which both terms act, as the claim lists them
ClaimPhase(l, r) ==
    CASE <<l, r>> = <<"X", "Y">> -> CI
      [] <<l, r>> = <<"Y", "X">> -> CNegI
      [] <<l, r>> = <<"X", "Z">> -> CNegI
      [] <<l, r>> = <<"Z", "X">> -> CI
      [] <<l, r>> = <<"Y", "Z">> -> CI
      [] <<l, r>> = <<"Z", "Y">> -> CNegI
      [] l = r -> COne

RECURSIVE PhaseProduct(_, _, _)
\* the product of the phases of the qubits qs
PhaseProduct(a, b, qs) ==
    IF qs = {}
    THEN COne
    ELSE LET q == CHOOSE x \in qs : TRUE
         IN  CMul(ClaimPhase(GetItem(a.ops, q), GetItem(b.ops, q)),
                  PhaseProduct(a, b, qs \ {q}))

\* every key of the map once, every value X, Y or Z
WellFormedOps(ops) ==
    /\ \A i \in DOMAIN ops : ops[i][2] \in {"X", "Y", "Z"}
    /\ \A i, j \in DOMAIN ops : i # j => ops[i][1] # ops[j][1]

\* C1: a * b is the product qubit by qubit with a's operator on the left: on
\* every qubit the operator of the result is PAULI_PROD of (a[q], b[q]), a
\* qubit whose product is I is absent from the result, and the coefficient is
\* coef(a) * coef(b) times one phase for every qubit both terms act on;
\* sX(0) * sZ(0) is -1j * Y0.
C1_MulPerQubit ==
    pc = "mul" =>
        /\ WellFormedOps(rt1.ops)
        /\ \A q \in Keys(rt1.ops) \cup Qubits :
               GetItem(rt1.ops, q) = PAULI_PROD(GetItem(ta.ops, q), GetItem(tb.ops, q))
        /\ rt1.coef = CMul(CMul(ta.coef, tb.coef),
                           PhaseProduct(ta, tb, Keys(ta.ops) \cap Keys(tb.ops)))
        /\ (ta = PauliTerm("X", 0, COne) /\ tb = PauliTerm("Z", 0, COne))
               => rt1 = PauliTerm("Y", 0, CNegI)

\* two terms that act on the same two qubits with different operators
C1_Witness ==
    /\ pc = "mul"
    /\ ta = from_list(<<<<"X", 0>>, <<"Y", 1>>>>, <<2, 0>>)
    /\ tb = from_list(<<<<"Z", 0>>, <<"Y", 1>>>>, CI)
    /\ rt1 = from_list(<<<<"Y", 0>>>>, <<2, 0>>)

\* C2: (a * b) * c == a * (b * c), as PauliTerm.__eq__ compares them
C2_MulAssociative ==
    pc = "assoc" => TermEq(rt1, rt2)

\* three terms whose supports overlap on a qubit with three different operators
C2_Witness ==
    /\ pc = "assoc"
    /\ GetItem(ta.ops, 0) = "X" /\ GetItem(tb.ops, 0) = "Y" /\ GetItem(tc.ops, 0) = "Z"
    /\ GetItem(ta.ops, 1) = "Z" /\ GetItem(tb.ops, 1) = "Z" /\ GetItem(tc.ops, 1) = "X"
    /\ TermEq(rt1, rt2)

\* C3, as claimed: a * ID() == a and (a + 0) == a for every term a
C3_IdentityLaws ==
    /\ pc = "mulid" => TermEq(rt1, ta)
    /\ pc = "addzero" => rb1

\* C3, amended: a * ID() == a for every term a, and (a + 0) == a exactly for
\* the terms whose coefficient is not near zero or whose support is empty
C3_IdentityLawsAmended ==
    /\ pc = "mulid" => TermEq(rt1, ta)
    /\ pc = "addzero" => (rb1 <=> (~IsClose(ta.coef, CZero) \/ Len(ta.ops) = 0))

\* a term on two qubits with a coefficient that is not zero, plus 0
C3_Witness ==
    /\ pc = "addzero"
    /\ Len(ta.ops) = 2
    /\ ~IsClose(ta.coef, CZero)
    /\ rs1 = <<ta>>
    /\ rb1

RECURSIVE RepeatedProduct(_, _)
\* the n-fold product of t with itself, starting from the identity
RepeatedProduct(t, n) ==
    IF n = 0 THEN ID ELSE TermMul(RepeatedProduct(t, n - 1), t)

\* C4: t ** n is the n-fold product of t with itself starting from the
\* identity, also for a term of empty support (coefficient c ** n)
C4_PowIsRepeatedProduct ==
    pc = "pow" =>
        /\ TermEq(rt1, RepeatedProduct(ta, pw))
        /\ pw = 0 => rt1 = ID

\* the number of qubits both terms act on with different operators
AntiCoincidences(a, b) ==
    Cardinality({q \in Keys(a.ops) \cap Keys(b.ops) : GetItem(a.ops, q) # GetItem(b.ops, q)})

\* same support and same coefficient
SameTerm(a, b) == operations_as_set(a) = operations_as_set(b) /\ a.coef = b.coef

\* C9: for coefficients that are not zero, check_commutation([a], b) is True
\* exactly when the number of qubits both act on with different operators is
\* even, which is exactly when a * b and b * a are equal terms; when it is
\* False, a * b is -1 times b * a.
C9_ParityAgreesWithAlgebra ==
    (pc = "commute" /\ ta.coef # CZero /\ tb.coef # CZero) =>
        /\ rb1 <=> (AntiCoincidences(ta, tb) % 2 = 0)
        /\ rb1 <=> SameTerm(rt1, rt2)
        /\ ~rb1 => SameTerm(rt1, TermMulNumber(rt2, CNegOne))
        /\ (Keys(ta.ops) \cap Keys(tb.ops) = {}) => rb1

\* two terms that differ on two qubits commute, and their products are equal
C9_Witness ==
    /\ pc = "commute"
    /\ ta.coef # CZero /\ tb.coef # CZero
    /\ AntiCoincidences(ta, tb) = 2
    /\ rb1
    /\ SameTerm(rt1, rt2)

\* C10: check_commutation([a], b) = check_commutation([b], a)
C10_CommutationSymmetric ==
    pc = "commute" => rb1 = rb2

\* two terms of different supports that do not commute
C10_Witness ==
    /\ pc = "commute"
    /\ Keys(ta.ops) = {0}
    /\ Keys(tb.ops) = {0, 1}
    /\ ~rb1 /\ ~rb2

-----------------------------------------------------------------------------
(* Claims on sums *)

\* what a term is compared by: its support set and its coefficient
TermKey(t) == <<operations_as_set(t), t.coef>>

\* how many times the terms of S hold a term of that key
Count(S, key) == Cardinality({i \in DOMAIN S : TermKey(S[i]) = key})

SameMultiset(S, T) ==
    \A key \in {TermKey(S[i]) : i \in DOMAIN S} \cup {TermKey(T[i]) : i \in DOMAIN T} :
        Count(S, key) = Count(T, key)

\* C5: S == T is True exactly when the multisets of the terms of S and T are
\* equal, whatever the order of the lists, also for sums that repeat a term
C5_SumEqIsMultisetEq ==
    pc = "eq" => (rb1 <=> SameMultiset(sa, sb))

\* the positions of S that hold the first term of their support set
FirstOfGroup(S) ==
    {i \in DOMAIN S :
        \A j \in 1..(i - 1) : operations_as_set(S[j]) # operations_as_set(S[i])}

RECURSIVE CoefSum(_, _)
\* the sum of the coefficients of the terms of S at the positions idx
CoefSum(S, idx) ==
    IF idx = {}
    THEN CZero
    ELSE LET i == CHOOSE x \in idx : TRUE
         IN  CAdd(S[i].coef, CoefSum(S, idx \ {i}))

\* the sum of the coefficients of the group of S[i]
GroupSum(S, i) ==
    CoefSum(S, {j \in DOMAIN S : operations_as_set(S[j]) = operations_as_set(S[i])})

\* the first positions of the groups whose sum is not near zero
KeptGroups(S) == {i \in FirstOfGroup(S) : ~IsClose(GroupSum(S, i), CZero)}

\* C6: simplify(S) holds, in the order of the groups' first occurrences, one
\* term for every group of equal support set whose coefficients do not sum to
\* (near) zero, with the sum as its coefficient and the operator order of the
\* first member; the other groups are dropped, and when all are the result
\* is the one term of coefficient zero and empty support.
C6_SimplifyGroups ==
    pc = "simplify" =>
        LET kept == KeptGroups(sa)
        IN  IF kept = {}
            THEN rs1 = <<ZERO>>
            ELSE /\ Len(rs1) = Cardinality(kept)
                 /\ \A i \in kept :
                        rs1[1 + Cardinality({j \in kept : j < i})] =
                            [ops |-> sa[i].ops, coef |-> GroupSum(sa, i)]

\* a group whose members differ in the order of their operators, a group of
\* one term of coefficient zero, and a group of one term that is kept
C6_Witness ==
    /\ pc = "simplify"
    /\ sa = <<from_list(<<<<"Z", 1>>, <<"X", 0>>>>, COne),
              from_list(<<<<"Z", 0>>>>, CZero),
              from_list(<<<<"X", 0>>, <<"Z", 1>>>>, COne)>>
    /\ rs1 = <<from_list(<<<<"Z", 1>>, <<"X", 0>>>>, <<2, 0>>)>>

\* C7: simplify(simplify(S)) has the term list of simplify(S)
C7_SimplifyIdempotent ==
    pc = "simplify" => rs2 = rs1

\* a sum whose terms all cancel
C7_Witness ==
    /\ pc = "simplify"
    /\ sa = <<from_list(<<<<"X", 0>>>>, COne), from_list(<<<<"X", 0>>>>, CNegOne)>>
    /\ rs1 = <<ZERO>>
    /\ rs2 = <<ZERO>>

-----------------------------------------------------------------------------
(* Claims on the arithmetic that returns sums *)

\* a term list that is not empty, no two terms of one support set, no
\* coefficient near zero but in the sum of the one term 0 * I
Canonical(S) ==
    /\ Len(S) > 0
    /\ \A i, j \in DOMAIN S : i # j => operations_as_set(S[i]) # operations_as_set(S[j])
    /\ \/ S = <<ZERO>>
       \/ \A i \in DOMAIN S : ~IsClose(S[i].coef, CZero)

\* C8: every PauliSum that an arithmetic operation or from_compact_str
\* returns, after any sequence of them, is canonical
C8_ReturnedSumsCanonical ==
    nops > 0 => Canonical(sa)

\* the second operation of a session returned a sum of three terms
C8_Witness ==
    /\ nops = 2
    /\ pc = "returned"
    /\ Len(sa) = 3
    /\ Canonical(sa)

-----------------------------------------------------------------------------
(* Claims on commuting_sets *)

\* the commutation predicate of two terms
Commutes(a, b) == check_commutation(<<a>>, b)

\* the number of the places of the groups G that hold the term t
PlacesInGroups(G, t) ==
    Cardinality({gm \in {<<g, m>> : g \in DOMAIN G, m \in 1..MaxLen + 1} :
                    gm[2] \in DOMAIN G[gm[1]] /\ G[gm[1]][gm[2]] = t})

\* C11: commuting_sets(S) is a partition of the term list of S into non-empty
\* groups: every term of S, counted by position, is in exactly one place of
\* one group, no group holds a term that is not in S, and the terms of a
\* group commute pairwise
C11_GroupsPartition ==
    pc = "groups" =>
        /\ \A g \in DOMAIN rl : Len(rl[g]) > 0
        /\ \A i \in DOMAIN sa :
              PlacesInGroups(rl, sa[i]) = Cardinality({k \in DOMAIN sa : sa[k] = sa[i]})
        /\ \A g \in DOMAIN rl : \A m \in DOMAIN rl[g] :
              \E i \in DOMAIN sa : sa[i] = rl[g][m]
        /\ \A g \in DOMAIN rl : \A m, n \in DOMAIN rl[g] :
              m # n => Commutes(rl[g][m], rl[g][n])

\* three terms, one of them twice, in two groups
C11_Witness ==
    /\ pc = "groups"
    /\ Len(sa) = 3
    /\ sa[1] = sa[3]
    /\ Len(rl) = 2
    /\ Len(rl[1]) = 2

\* the terms of S at the positions that f sends to group k, in the order of S
GroupAt(S, f, k) ==
    LET idx == SelectSeq([i \in DOMAIN S |-> i], LAMBDA i : f[i] = k)
    IN  [m \in DOMAIN idx |-> S[idx[m]]]

\* f numbers the group of every position of S as first fit does: position 1
\* is in group 1; a later position is in a group whose earlier members all
\* commute with its term, while every group before that one has an earlier
\* member that does not, and a group is opened only next to the last one
IsFirstFit(S, f) ==
    /\ f[1] = 1
    /\ \A j \in DOMAIN S :
        /\ \A i \in 1..(j - 1) : f[i] = f[j] => Commutes(S[i], S[j])
        /\ \A k \in 1..(f[j] - 1) :
              \E i \in 1..(j - 1) : f[i] = k /\ ~Commutes(S[i], S[j])

\* C12: commuting_sets is first fit in the order of the terms: there is a
\* numbering of the positions by groups that is first fit, the groups are the
\* terms of each number in the order of S, and [X0, Z0, X0*X1] gives
\* [[X0, X0X1], [Z0]]
C12_GroupsFirstFit ==
    pc = "groups" =>
        /\ \E f \in [DOMAIN sa -> 1..Len(sa)] :
              /\ IsFirstFit(sa, f)
              /\ DOMAIN rl = {f[i] : i \in DOMAIN sa}
              /\ \A k \in DOMAIN rl : rl[k] = GroupAt(sa, f, k)
        /\ sa = <<PauliTerm("X", 0, COne), PauliTerm("Z", 0, COne),
                  TermMul(PauliTerm("X", 0, COne), PauliTerm("X", 1, COne))>>
             => rl = << <<sa[1], sa[3]>>, <<sa[2]>> >>

\* the scenario of the claim
C12_Witness ==
    /\ pc = "groups"
    /\ sa = <<PauliTerm("X", 0, COne), PauliTerm("Z", 0, COne),
              TermMul(PauliTerm("X", 0, COne), PauliTerm("X", 1, COne))>>
    /\ Len(rl) = 2

-----------------------------------------------------------------------------
(* Claims on exponential_map *)

\* the operators X and Y of a term, in iteration order
BasisOps(ops) == SelectSeq(ops, LAMBDA item : item[2] \in {"X", "Y"})

\* the gates that change the basis of the X and Y qubits, and their inverses
ToZBasis(ops) ==
    LET xy == BasisOps(ops)
    IN  [i \in DOMAIN xy |->
            IF xy[i][2] = "X" THEN H(xy[i][1]) ELSE RX(HalfPi, xy[i][1])]

ToOriginalBasis(ops) ==
    LET xy == BasisOps(ops)
    IN  [i \in DOMAIN xy |->
            IF xy[i][2] = "X" THEN H(xy[i][1]) ELSE RX(NegHalfPi, xy[i][1])]

\* CNOT(q_i, q_{i+1}) for i = 1..n-1
Ladder(ops) == [i \in 1..(Len(ops) - 1) |-> CNOT(ops[i][1], ops[i + 1][1])]

\* the same CNOTs from the last to the first
LadderBack(ops) ==
    [i \in 1..(Len(ops) - 1) |-> CNOT(ops[Len(ops) - i][1], ops[Len(ops) - i + 1][1])]

\* C13: for a term with non-zero real coefficient c and non-empty support
\* q1..qn, the circuit is the basis changes of the X and Y qubits in
\* iteration order, CNOT(q_i, q_{i+1}) for i = 1..n-1, RZ(2*c*angle) on q_n,
\* the CNOTs in reversed order and the inverse basis changes; its length is
\* 2k + 2(n-1) + 1 <= 4n - 1, k the number of X and Y qubits
C13_GeneralCaseCircuit ==
    (pc = "circuit" /\ ta.coef[1] # 0 /\ Len(ta.ops) > 0) =>
        LET n == Len(ta.ops)
            k == Len(BasisOps(ta.ops))
        IN  /\ rl = ToZBasis(ta.ops) \o Ladder(ta.ops)
                      \o <<RZ(Angle(RInt(2 * ta.coef[1] * pw)), ta.ops[n][1])>>
                      \o LadderBack(ta.ops) \o ToOriginalBasis(ta.ops)
            /\ Len(rl) = 2 * k + 2 * (n - 1) + 1
            /\ Len(rl) <= 4 * n - 1

\* a term on three qubits taken from the last to the first, with an X, a Y
\* and a Z
C13_Witness ==
    /\ pc = "circuit"
    /\ ta.coef = <<-2, 0>>
    /\ pw = 2
    /\ Len(ta.ops) = 3
    /\ ta.ops[1][1] > ta.ops[2][1]
    /\ {ta.ops[i][2] : i \in 1..3} = {"X", "Y", "Z"}
    /\ Len(rl) = 9

\* C14: for a term with empty support and real coefficient c the circuit is
\* X(0), PHASE(-angle*c, 0), X(0), PHASE(-angle*c, 0)
C14_IdentityGadget ==
    (pc = "circuit" /\ Len(ta.ops) = 0) =>
        rl = <<X(0), PHASE(Angle(RInt(-pw * ta.coef[1])), 0),
               X(0), PHASE(Angle(RInt(-pw * ta.coef[1])), 0)>>

\* C14 for the coefficients that are not (near) zero
C14_IdentityGadgetAmended ==
    (pc = "circuit" /\ Len(ta.ops) = 0 /\ ta.coef[1] # 0) =>
        rl = <<X(0), PHASE(Angle(RInt(-pw * ta.coef[1])), 0),
               X(0), PHASE(Angle(RInt(-pw * ta.coef[1])), 0)>>

C14_Witness ==
    /\ pc = "circuit"
    /\ Len(ta.ops) = 0
    /\ ta.coef = <<-2, 0>>
    /\ pw = 2
    /\ Len(rl) = 4

\* C15: for a term whose coefficient is (near) zero, whatever its support,
\* the circuit is empty for every angle
C15_ZeroIsEmpty ==
    (pc = "circuit" /\ ta.coef = CZero) => rl = <<>>

C15_Witness ==
    /\ pc = "circuit"
    /\ ta.coef = CZero
    /\ Len(ta.ops) = 3
    /\ pw = 2
    /\ rl = <<>>

\* C16: exponential_map raises, and no circuit is produced, for every term
\* whose coefficient has an imaginary part that is not near zero, whatever
\* its support; it does not raise for a term with a real coefficient
C16_ImaginaryRejected ==
    pc \in {"raised", "mapped", "circuit"} =>
        /\ exc = "TypeError" <=> tb.coef[2] # 0
        /\ exc = "TypeError" <=> pc = "raised"
        /\ pc = "raised" => rl = <<>>

C16_Witness ==
    /\ pc = "raised"
    /\ exc = "TypeError"
    /\ Len(tb.ops) = 0
    /\ tb.coef = <<1, 1>>

-----------------------------------------------------------------------------
(* Claims on suzuki_trotter *)

\* the lengths of the base sequences, as the claim gives them
BaseLength(order) ==
    CASE order = 1 -> 2 [] order = 2 -> 3 [] order = 3 -> 6 [] order = 4 -> 15

ValidSchedule ==
    pc = "schedule" /\ trotter_order \in 1..4 /\ trotter_steps >= 1

\* C17: for every order in 1..4 and steps >= 1 the schedule is the base
\* sequence of the order (of length 2, 3, 6, 15; order 1 is [(1,A),(1,B)],
\* order 2 is [(0.5,A),(1,B),(0.5,A)]) with every weight divided by steps,
\* repeated steps times in the same order
C17_ScheduleIsBaseRepeated ==
    ValidSchedule =>
        LET base == trotter_dict(trotter_order)
            L == BaseLength(trotter_order)
        IN  /\ exc = "none"
            /\ Len(base) = L
            /\ Len(rl) = L * trotter_steps
            /\ \A i \in DOMAIN rl :
                /\ rl[i][1] = RDivInt(base[((i - 1) % L) + 1][1], trotter_steps)
                /\ rl[i][2] = base[((i - 1) % L) + 1][2]
            /\ trotter_order = 1 => base = << <<RInt(1), 0>>, <<RInt(1), 1>> >>
            /\ trotter_order = 2 =>
                  base = << <<Real(1, 0, 2), 0>>, <<RInt(1), 1>>, <<Real(1, 0, 2), 0>> >>

\* order 3 in two steps: twelve slices, the first of weight 7/48
C17_Witness ==
    /\ pc = "schedule"
    /\ trotter_order = 3
    /\ trotter_steps = 2
    /\ Len(rl) = 12
    /\ rl[1] = <<Real(7, 0, 48), 0>>
    /\ rl[7] = rl[1]

RECURSIVE WeightSumIn(_, _, _, _)
\* the sum of the weights of the slices lo..hi that are of that operator
WeightSumIn(slices, operator, lo, hi) ==
    IF lo > hi
    THEN RZero
    ELSE IF lo = hi
    THEN IF slices[lo][2] = operator THEN slices[lo][1] ELSE RZero
    ELSE LET mid == (lo + hi) \div 2
         IN  RAdd(WeightSumIn(slices, operator, lo, mid),
                  WeightSumIn(slices, operator, mid + 1, hi))

\* the sum of the weights of the slices of that operator
WeightSum(slices, operator) == WeightSumIn(slices, operator, 1, Len(slices))

-----------------------------------------------------------------------------
(* Claims on trotterize *)

\* the commutator a * b - b * a simplifies to zero
CommutatorIsZero(a, b) ==
    LET commutator == TermSub(TermMul(a, b), TermMul(b, a))
    IN  Len(commutator) = 1 /\ commutator[1].coef = CZero

\* one of the two terms has a coefficient that exponential_map rejects
SomeImaginary == ta.coef[2] # 0 \/ tb.coef[2] # 0

\* C19: if the commutator of A and B simplifies to zero, trotterize returns
\* the circuit of exponential_map(A)(1) followed by that of
\* exponential_map(B)(1), for every valid order and every steps; it raises
\* when one of the two exponential_map calls does
C19_CommutingShortcut ==
    (pc = "trotterized" /\ trotter_order \in 1..4 /\ CommutatorIsZero(ta, tb)) =>
        /\ exc = IF SomeImaginary THEN "TypeError" ELSE "none"
        /\ exc = "none" =>
              rl = exp_wrap(FloatTerm(ta), RInt(1)) \o exp_wrap(FloatTerm(tb), RInt(1))

\* 2*Z0 and Z0*Z1 commute: four instructions, also for steps = 0
C19_Witness ==
    /\ pc = "trotterized"
    /\ trotter_order = 4
    /\ trotter_steps = 0
    /\ ta = from_list(<<<<"Z", 0>>>>, <<2, 0>>)
    /\ tb = from_list(<<<<"Z", 0>>, <<"Z", 1>>>>, COne)
    /\ exc = "none"
    /\ Len(rl) = 4

\* the operand of slice i of a schedule
Operand(slices, i) == IF slices[i][2] = 0 THEN ta ELSE tb

RECURSIVE BlocksIn(_, _, _)
\* the circuits of exponential_map(weight * operand)(1) for the slices
\* lo..hi, one after the other
BlocksIn(slices, lo, hi) ==
    IF lo > hi
    THEN <<>>
    ELSE IF lo = hi
    THEN exp_wrap(TermRMulFloat(Operand(slices, lo), slices[lo][1]), RInt(1))
    ELSE LET mid == (lo + hi) \div 2
         IN  BlocksIn(slices, lo, mid) \o BlocksIn(slices, mid + 1, hi)

\* C20: if A and B do not commute, trotterize returns the circuits of
\* exponential_map(weight * operand)(1) for the slices of the schedule, in
\* the order of the schedule, operand 0 being A and operand 1 being B: there
\* are base-length * steps blocks, the i-th with its rotation by
\* 2 * weight_i * coefficient on the last qubit of its operand; it raises
\* when exponential_map does
C20_SlicesInScheduleOrder ==
    (pc = "trotterized" /\ trotter_order \in 1..4 /\ trotter_steps >= 1
        /\ ~CommutatorIsZero(ta, tb)) =>
        LET slices == suzuki_trotter(trotter_order, trotter_steps)
            rotations == SelectSeq(rl, LAMBDA g : g.gate = "RZ")
        IN  /\ exc = IF SomeImaginary THEN "TypeError" ELSE "none"
            /\ exc = "none" =>
                /\ rl = BlocksIn(slices, 1, Len(slices))
                /\ Len(rotations) = BaseLength(trotter_order) * trotter_steps
                /\ \A i \in DOMAIN rotations :
                      LET term == Operand(slices, i)
                      IN  rotations[i] =
                            RZ(Angle(RMul(RInt(2 * term.coef[1]), slices[i][1])),
                               term.ops[Len(term.ops)][1])

\* X0 and 2*Z0 in order 2, two steps: six blocks, fourteen instructions, the
\* first rotation by 2 * 0.25
C20_Witness ==
    /\ pc = "trotterized"
    /\ trotter_order = 2
    /\ trotter_steps = 2
    /\ ta = from_list(<<<<"X", 0>>>>, COne)
    /\ tb = from_list(<<<<"Z", 0>>>>, <<2, 0>>)
    /\ exc = "none"
    /\ Len(rl) = 14
    /\ rl[2] = RZ(Angle(Real(1, 0, 2)), 0)
    /\ rl[4] = RZ(Angle(Real(2, 0, 1)), 0)


\* C21: a Trotter order outside {1, 2, 3, 4} is always rejected:
\* suzuki_trotter fails for it whatever the number of steps (the lookup of
\* the order in trotter_dict comes before the division), and trotterize fails
\* with the ValueError of its first statement and emits no instruction,
\* whether the two terms commute or not and whether or not one of them has a
\* coefficient that exponential_map would reject.
C21_OrderOutsideRejected ==
    trotter_order \notin TrotterOrders =>
        /\ pc = "schedule" => exc = "KeyError" /\ rl = <<>>
        /\ pc = "trotterized" => exc = "ValueError" /\ rl = <<>>

\* trotterize was given an unsupported order and two commuting terms, the
\* second of them with an imaginary coefficient
C21_Witness ==
    /\ pc = "trotterized"
    /\ trotter_order \notin TrotterOrders
    /\ CommutatorIsZero(ta, tb)
    /\ tb.coef[2] # 0
    /\ exc = "ValueError"


-----------------------------------------------------------------------------
(* Claims on the operands of a call *)

\* the objects that existed before the call are what they were: every
\* PauliTerm has the OrderedDict and the coefficient it had, every
\* OrderedDict its items in their order, every list its terms
OperandsUnchanged ==
    /\ SubSeq(heap.terms, 1, Len(before.terms)) = before.terms
    /\ SubSeq(heap.dicts, 1, Len(before.dicts)) = before.dicts
    /\ SubSeq(heap.lists, 1, Len(before.lists)) = before.lists

\* C22: no algebra operation mutates its operands: after Term*Term,
\* Term*number, Term*Sum, Sum*Sum, number*Sum, Term+Term, Term+Sum, Sum+Sum,
\* a subtraction, a power or simplify, every operand PauliTerm has the same
\* operator map (keys, values and order) and the same coefficient as before
\* the call and every operand PauliSum the same list of terms, also when one
\* object is passed for both operands or is held twice by a PauliSum.
C22_OperandsNotMutated ==
    pc # "init" => OperandsUnchanged

\* number * Sum returned a sum of one new term whose coefficient is not that
\* of the operand, for a Sum that holds one PauliTerm object twice
C22_Witness ==
    /\ pc = "number*Sum"
    /\ before.lists[rl[1]] = <<1, 1>>
    /\ rl[2] = <<2, 0>>
    /\ Len(rs1) = 1
    /\ rs1[1].coef = <<4, 0>>
    /\ before.terms[1].coef = COne
    /\ Len(heap.terms) > Len(before.terms)


\* C23: circuit synthesis does not mutate its inputs: after
\* exponential_map(term), exponentiate(term),
\* exponentiate_commuting_pauli_sum(S) or trotterize(A, B, ...) every input
\* PauliTerm has the coefficient (real and imaginary part, also an imaginary
\* part that is not zero but within tolerance of zero) and the operator map
\* that it had before the call.
C23_InputsNotMutated ==
    pc # "init" => heap = before

-----------------------------------------------------------------------------
(* Claims on the text of terms and sums *)

\* a sum that simplify leaves as it is: its supports differ pairwise and no
\* coefficient is zero, or it is the single term 0*I
IsSimplified(pauli_sum) == simplify_pauli_sum(pauli_sum) = pauli_sum

\* C24: for any PauliSum s, sums built from a term list with repeated
\* supports or zero coefficients included, reading the compact text of s
\* gives a sum equal to s.
C24_RoundTrip ==
    pc = "sum round trip" => exc = "none" /\ rb1

\* C24 as the code has it: the sum read from the compact text of s is equal
\* to s when s is simplified.
C24_RoundTripSimplified ==
    pc = "sum round trip" /\ IsSimplified(sa) => exc = "none" /\ rb1

C24_Witness ==
    /\ pc = "sum round trip"
    /\ IsSimplified(sa)
    /\ Len(sa) = 2
    /\ sa[1].coef = <<2, -1>>
    /\ sa[2].coef = <<0, -2>>
    /\ Len(sa[1].ops) = 2
    /\ rl[1] = "("
    /\ rs1 = sa
    /\ rb1

\* the operator part of a text: what follows the first "*" outside
\* parentheses, without its "*"
OperatorPart(text) ==
    LET stars == SplitPlaces(text, "*")
        first == CHOOSE k \in stars : \A q \in stars : k <= q
    IN  IF stars = {}
        THEN <<>>
        ELSE SelectSeq(SubSeq(text, first + 1, Len(text)), LAMBDA ch : ch # "*")

\* an operator part of the pattern in which one qubit index occurs twice
RepeatsIndex(str_op) ==
    /\ MatchesOperator(str_op)
    /\ \E i, j \in DOMAIN str_op :
        i < j /\ i % 2 = 0 /\ j % 2 = 0 /\ str_op[i] = str_op[j]

\* C25: reading a term text whose operator part has the same qubit index
\* more than once fails with a parse error and returns no term.
C25_RepeatedIndexRejected ==
    pc = "term from text" /\ RepeatsIndex(OperatorPart(rl)) =>
        exc = "ValueError" /\ rt1 = NoTerm

-----------------------------------------------------------------------------
(* Claims on the terms of a session *)

\* C26: in every PauliTerm that a sequence of constructor, from_list,
\* from_compact_str, Term*Term, Term*number, power and term_with_coeff calls
\* reaches, the operator map holds only X, Y or Z and every qubit at most
\* once; a qubit on which the operators of a product cancel to I is removed
\* from the map.
C26_OperatorMap ==
    /\ WellFormedOps(ta.ops)
    /\ pc = "Term*Term" =>
           \A q \in Keys(tb.ops) \cup Keys(tc.ops) :
               PAULI_PROD(GetItem(tb.ops, q), GetItem(tc.ops, q)) = "I"
                   => q \notin Keys(ta.ops)

\* the second call of a session is a product in which qubit 0 cancels
C26_Witness ==
    /\ pc = "Term*Term"
    /\ nops = 2
    /\ tb.ops = <<<<1, "Y">>, <<0, "X">>>>
    /\ tc.ops = <<<<0, "X">>>>
    /\ ta.ops = <<<<1, "Y">>>>

\* C27: whenever a call fails, every term that existed before the call has
\* the operator map and the coefficient it had; when trotterize(A, B) fails
\* because B's coefficient is not real, A is unchanged.
C27_FailedCallLeavesObjects ==
    pc # "init" /\ exc # "none" => heap = before

-----------------------------------------------------------------------------
(* Claims on hashes *)

\* two coefficients whose real parts and whose imaginary parts differ by
\* less than 1/HASH_PRECISION (ten tenths)
BelowHashPrecision(a, b) ==
    /\ Abs(a.coef[1] - b.coef[1]) < 10
    /\ Abs(a.coef[2] - b.coef[2]) < 10

\* C28: two PauliTerms with the same support whose coefficients differ by
\* less than 1/HASH_PRECISION in both parts have equal hashes, so that two
\* terms that compare equal are the same element of a hashed set.
C28_HashAgrees ==
    pc = "hash" /\ operations_as_set(ta) = operations_as_set(tb) =>
        /\ BelowHashPrecision(ta, tb) => rl[1] = rl[2]
        /\ rb1 => rb2

\* C28 as the code has it: for such terms the rounded parts differ by at
\* most one, and the hashes are equal exactly when the rounded parts are.
C28_HashWithinOne ==
    pc = "hash" /\ operations_as_set(ta) = operations_as_set(tb)
                /\ BelowHashPrecision(ta, tb) =>
        /\ Abs(rl[1][1] - rl[2][1]) <= 1
        /\ Abs(rl[1][2] - rl[2][2]) <= 1
        /\ (rl[1] = rl[2]) <=> (rl[1][1] = rl[2][1] /\ rl[1][2] = rl[2][2])

\* two terms that compare equal and hash differently
C28_Witness ==
    /\ pc = "hash"
    /\ operations_as_set(ta) = operations_as_set(tb)
    /\ ta.coef = <<100005, 0>>
    /\ tb.coef = <<100006, 0>>
    /\ rb1
    /\ rl[1][1] = 10000
    /\ rl[2][1] = 10001
    /\ ~rb2

-----------------------------------------------------------------------------
(* Claims on the order of the terms *)

\* C29: for every PauliTerm t and PauliSum S the term list of t + S is the
\* simplification of t's term followed by S's terms: the terms of
\* PauliSum([t]) + S in their order, and commuting_sets of the two are equal.
C29_AddKeepsOrder ==
    pc = "Term+Sum" =>
        LET t == TermAt(before, rl[1])
            S == SumAt(before, rl[2])
        IN  /\ rs1 = simplify_pauli_sum(PauliSum(<<t>> \o S))
            /\ rs1 = SumAdd(PauliSum(<<t>>), S)
            /\ commuting_sets(rs1) = commuting_sets(SumAdd(PauliSum(<<t>>), S))

\* C30: for every PauliTerm t with a numeric coefficient, terms of empty
\* support included, and every integer n >= 0, PauliSum([t]) ** n == t ** n.
C30_PowersAgree ==
    pc = "powers" => rb1

====
